---------------------------- MODULE Spec2Model ----------------------------
(***************************************************************************)
(* Transport and access-control layer of mcp-server-gmail: the CORS        *)
(* middleware (origin allow-list), the HTTP transport's request handler,   *)
(* and the network binder (stack probe, binding strategy, bind cascade).   *)
(*                                                                         *)
(* Strings of the program are modelled as sequences of one-character       *)
(* strings, so that prefix tests, splitting, regular-expression matching   *)
(* and URL parsing are computed character by character as the code does.   *)
(***************************************************************************)
EXTENDS Integers, Sequences, FiniteSets, TLC

(***************************************************************************)
(* String primitives (JavaScript String methods used by the code).         *)
(***************************************************************************)
UpperCase == {"A","B","C","D","E","F","G","H","I","J","K","L","M",
              "N","O","P","Q","R","S","T","U","V","W","X","Y","Z"}
LowerCase == {"a","b","c","d","e","f","g","h","i","j","k","l","m",
              "n","o","p","q","r","s","t","u","v","w","x","y","z"}
Digit == {"0","1","2","3","4","5","6","7","8","9"}
HexDigit == Digit \cup {"a","b","c","d","e","f"}

LowerOf ==
  ("A" :> "a") @@ ("B" :> "b") @@ ("C" :> "c") @@ ("D" :> "d") @@ ("E" :> "e") @@
  ("F" :> "f") @@ ("G" :> "g") @@ ("H" :> "h") @@ ("I" :> "i") @@ ("J" :> "j") @@
  ("K" :> "k") @@ ("L" :> "l") @@ ("M" :> "m") @@ ("N" :> "n") @@ ("O" :> "o") @@
  ("P" :> "p") @@ ("Q" :> "q") @@ ("R" :> "r") @@ ("S" :> "s") @@ ("T" :> "t") @@
  ("U" :> "u") @@ ("V" :> "v") @@ ("W" :> "w") @@ ("X" :> "x") @@ ("Y" :> "y") @@
  ("Z" :> "z")

DigitVal ==
  ("0" :> 0) @@ ("1" :> 1) @@ ("2" :> 2) @@ ("3" :> 3) @@ ("4" :> 4) @@
  ("5" :> 5) @@ ("6" :> 6) @@ ("7" :> 7) @@ ("8" :> 8) @@ ("9" :> 9)

\* Case folding of one character (RegExp flag i, URL host and scheme lowering).
toLowerChar(c) == IF c \in UpperCase THEN LowerOf[c] ELSE c

toLowerCase(s) == [i \in 1..Len(s) |-> toLowerChar(s[i])]

\* s.startsWith(p)
startsWith(s, p) == Len(p) <= Len(s) /\ SubSeq(s, 1, Len(p)) = p

\* s.endsWith(p)
endsWith(s, p) == Len(p) <= Len(s) /\ SubSeq(s, Len(s) - Len(p) + 1, Len(s)) = p

\* s.includes(p)
includes(s, p) ==
  \E i \in 1..(Len(s) - Len(p) + 1) : SubSeq(s, i, i + Len(p) - 1) = p

\* The least element of a set of indices; 0 for the empty set.
firstIndex(hits) ==
  IF hits = {} THEN 0 ELSE CHOOSE i \in hits : \A j \in hits : i <= j

\* s.indexOf(c, from), 1-based; 0 when c does not occur at or after from.
indexOfChar(s, c, from) == firstIndex({i \in from..Len(s) : s[i] = c})

\* Index of the first character at or after from that lies in the set cs; 0 if none.
indexOfAny(s, cs, from) == firstIndex({i \in from..Len(s) : s[i] \in cs})

\* s.split(c): the pieces of s between occurrences of c; splitAt is split with
\* the index i of the first occurrence at hand.
RECURSIVE split(_, _)
RECURSIVE splitAt(_, _, _)
splitAt(s, c, i) ==
  IF i = 0 THEN <<s>>
  ELSE <<SubSeq(s, 1, i - 1)>> \o split(SubSeq(s, i + 1, Len(s)), c)

split(s, c) == splitAt(s, c, indexOfChar(s, c, 1))

\* s.replace(/c/g, r): every occurrence of the character c replaced by the string r.
RECURSIVE replaceAll(_, _, _)
replaceAll(s, c, r) ==
  IF s = <<>> THEN <<>>
  ELSE (IF Head(s) = c THEN r ELSE <<Head(s)>>) \o replaceAll(Tail(s), c, r)

isDigits(s) == s # <<>> /\ \A i \in 1..Len(s) : s[i] \in Digit

\* Decimal value of a string of digits.
RECURSIVE decimalValue(_)
decimalValue(s) ==
  IF s = <<>> THEN 0
  ELSE 10 * decimalValue(SubSeq(s, 1, Len(s) - 1)) + DigitVal[s[Len(s)]]

\* Number(part) as isIPv4PrivateRange uses it: the value of a decimal literal,
\* 0 for the empty string, NaN (modelled as -1) for anything else.
NaN == -1
Number(part) ==
  IF part = <<>> THEN 0
  ELSE IF isDigits(part) THEN decimalValue(part)
  ELSE NaN

(***************************************************************************)
(* String constants of the program and of the inputs.                      *)
(***************************************************************************)
DEFAULT_CORS_CONFIG_origins ==
  <<
    <<"h","t","t","p",":","/","/","1","0",".","*">>,  \* http://10.*
    <<"h","t","t","p","s",":","/","/","1","0",".","*">>,  \* https://10.*
    <<"h","t","t","p",":","/","/","1","7","2",".","1","6",".","*">>,  \* http://172.16.*
    <<"h","t","t","p","s",":","/","/","1","7","2",".","1","6",".","*">>,  \* https://172.16.*
    <<"h","t","t","p",":","/","/","1","7","2",".","1","7",".","*">>,  \* http://172.17.*
    <<"h","t","t","p","s",":","/","/","1","7","2",".","1","7",".","*">>,  \* https://172.17.*
    <<"h","t","t","p",":","/","/","1","7","2",".","1","8",".","*">>,  \* http://172.18.*
    <<"h","t","t","p","s",":","/","/","1","7","2",".","1","8",".","*">>,  \* https://172.18.*
    <<"h","t","t","p",":","/","/","1","7","2",".","1","9",".","*">>,  \* http://172.19.*
    <<"h","t","t","p","s",":","/","/","1","7","2",".","1","9",".","*">>,  \* https://172.19.*
    <<"h","t","t","p",":","/","/","1","7","2",".","2","0",".","*">>,  \* http://172.20.*
    <<"h","t","t","p","s",":","/","/","1","7","2",".","2","0",".","*">>,  \* https://172.20.*
    <<"h","t","t","p",":","/","/","1","7","2",".","2","1",".","*">>,  \* http://172.21.*
    <<"h","t","t","p","s",":","/","/","1","7","2",".","2","1",".","*">>,  \* https://172.21.*
    <<"h","t","t","p",":","/","/","1","7","2",".","2","2",".","*">>,  \* http://172.22.*
    <<"h","t","t","p","s",":","/","/","1","7","2",".","2","2",".","*">>,  \* https://172.22.*
    <<"h","t","t","p",":","/","/","1","7","2",".","2","3",".","*">>,  \* http://172.23.*
    <<"h","t","t","p","s",":","/","/","1","7","2",".","2","3",".","*">>,  \* https://172.23.*
    <<"h","t","t","p",":","/","/","1","7","2",".","2","4",".","*">>,  \* http://172.24.*
    <<"h","t","t","p","s",":","/","/","1","7","2",".","2","4",".","*">>,  \* https://172.24.*
    <<"h","t","t","p",":","/","/","1","7","2",".","2","5",".","*">>,  \* http://172.25.*
    <<"h","t","t","p","s",":","/","/","1","7","2",".","2","5",".","*">>,  \* https://172.25.*
    <<"h","t","t","p",":","/","/","1","7","2",".","2","6",".","*">>,  \* http://172.26.*
    <<"h","t","t","p","s",":","/","/","1","7","2",".","2","6",".","*">>,  \* https://172.26.*
    <<"h","t","t","p",":","/","/","1","7","2",".","2","7",".","*">>,  \* http://172.27.*
    <<"h","t","t","p","s",":","/","/","1","7","2",".","2","7",".","*">>,  \* https://172.27.*
    <<"h","t","t","p",":","/","/","1","7","2",".","2","8",".","*">>,  \* http://172.28.*
    <<"h","t","t","p","s",":","/","/","1","7","2",".","2","8",".","*">>,  \* https://172.28.*
    <<"h","t","t","p",":","/","/","1","7","2",".","2","9",".","*">>,  \* http://172.29.*
    <<"h","t","t","p","s",":","/","/","1","7","2",".","2","9",".","*">>,  \* https://172.29.*
    <<"h","t","t","p",":","/","/","1","7","2",".","3","0",".","*">>,  \* http://172.30.*
    <<"h","t","t","p","s",":","/","/","1","7","2",".","3","0",".","*">>,  \* https://172.30.*
    <<"h","t","t","p",":","/","/","1","7","2",".","3","1",".","*">>,  \* http://172.31.*
    <<"h","t","t","p","s",":","/","/","1","7","2",".","3","1",".","*">>,  \* https://172.31.*
    <<"h","t","t","p",":","/","/","1","9","2",".","1","6","8",".","*">>,  \* http://192.168.*
    <<"h","t","t","p","s",":","/","/","1","9","2",".","1","6","8",".","*">>,  \* https://192.168.*
    <<"h","t","t","p",":","/","/","l","o","c","a","l","h","o","s","t",":","*">>,  \* http://localhost:*
    <<"h","t","t","p","s",":","/","/","l","o","c","a","l","h","o","s","t",":","*">>,  \* https://localhost:*
    <<"h","t","t","p",":","/","/","1","2","7",".","0",".","0",".","1",":","*">>,  \* http://127.0.0.1:*
    <<"h","t","t","p","s",":","/","/","1","2","7",".","0",".","0",".","1",":","*">>,  \* https://127.0.0.1:*
    <<"h","t","t","p","s",":","/","/","*",".","r","a","i","l","w","a","y",".","a","p","p">>,  \* https://*.railway.app
    <<"h","t","t","p","s",":","/","/","*",".","u","p",".","r","a","i","l","w","a","y",".","a","p","p">>,  \* https://*.up.railway.app
    <<"h","t","t","p",":","/","/","[",":",":","1","]",":","*">>,  \* http://[::1]:*
    <<"h","t","t","p","s",":","/","/","[",":",":","1","]",":","*">>  \* https://[::1]:*
  >>

PrivateNetworkPatterns ==
  <<
    <<"h","t","t","p",":","/","/","1","0",".","*">>,  \* http://10.*
    <<"h","t","t","p","s",":","/","/","1","0",".","*">>,  \* https://10.*
    <<"h","t","t","p",":","/","/","1","7","2",".","1","6",".","*">>,  \* http://172.16.*
    <<"h","t","t","p","s",":","/","/","1","7","2",".","1","6",".","*">>,  \* https://172.16.*
    <<"h","t","t","p",":","/","/","1","7","2",".","1","7",".","*">>,  \* http://172.17.*
    <<"h","t","t","p","s",":","/","/","1","7","2",".","1","7",".","*">>,  \* https://172.17.*
    <<"h","t","t","p",":","/","/","1","7","2",".","1","8",".","*">>,  \* http://172.18.*
    <<"h","t","t","p","s",":","/","/","1","7","2",".","1","8",".","*">>,  \* https://172.18.*
    <<"h","t","t","p",":","/","/","1","7","2",".","1","9",".","*">>,  \* http://172.19.*
    <<"h","t","t","p","s",":","/","/","1","7","2",".","1","9",".","*">>,  \* https://172.19.*
    <<"h","t","t","p",":","/","/","1","7","2",".","2","0",".","*">>,  \* http://172.20.*
    <<"h","t","t","p","s",":","/","/","1","7","2",".","2","0",".","*">>,  \* https://172.20.*
    <<"h","t","t","p",":","/","/","1","7","2",".","2","1",".","*">>,  \* http://172.21.*
    <<"h","t","t","p","s",":","/","/","1","7","2",".","2","1",".","*">>,  \* https://172.21.*
    <<"h","t","t","p",":","/","/","1","7","2",".","2","2",".","*">>,  \* http://172.22.*
    <<"h","t","t","p","s",":","/","/","1","7","2",".","2","2",".","*">>,  \* https://172.22.*
    <<"h","t","t","p",":","/","/","1","7","2",".","2","3",".","*">>,  \* http://172.23.*
    <<"h","t","t","p","s",":","/","/","1","7","2",".","2","3",".","*">>,  \* https://172.23.*
    <<"h","t","t","p",":","/","/","1","7","2",".","2","4",".","*">>,  \* http://172.24.*
    <<"h","t","t","p","s",":","/","/","1","7","2",".","2","4",".","*">>,  \* https://172.24.*
    <<"h","t","t","p",":","/","/","1","7","2",".","2","5",".","*">>,  \* http://172.25.*
    <<"h","t","t","p","s",":","/","/","1","7","2",".","2","5",".","*">>,  \* https://172.25.*
    <<"h","t","t","p",":","/","/","1","7","2",".","2","6",".","*">>,  \* http://172.26.*
    <<"h","t","t","p","s",":","/","/","1","7","2",".","2","6",".","*">>,  \* https://172.26.*
    <<"h","t","t","p",":","/","/","1","7","2",".","2","7",".","*">>,  \* http://172.27.*
    <<"h","t","t","p","s",":","/","/","1","7","2",".","2","7",".","*">>,  \* https://172.27.*
    <<"h","t","t","p",":","/","/","1","7","2",".","2","8",".","*">>,  \* http://172.28.*
    <<"h","t","t","p","s",":","/","/","1","7","2",".","2","8",".","*">>,  \* https://172.28.*
    <<"h","t","t","p",":","/","/","1","7","2",".","2","9",".","*">>,  \* http://172.29.*
    <<"h","t","t","p","s",":","/","/","1","7","2",".","2","9",".","*">>,  \* https://172.29.*
    <<"h","t","t","p",":","/","/","1","7","2",".","3","0",".","*">>,  \* http://172.30.*
    <<"h","t","t","p","s",":","/","/","1","7","2",".","3","0",".","*">>,  \* https://172.30.*
    <<"h","t","t","p",":","/","/","1","7","2",".","3","1",".","*">>,  \* http://172.31.*
    <<"h","t","t","p","s",":","/","/","1","7","2",".","3","1",".","*">>,  \* https://172.31.*
    <<"h","t","t","p",":","/","/","1","9","2",".","1","6","8",".","*">>,  \* http://192.168.*
    <<"h","t","t","p","s",":","/","/","1","9","2",".","1","6","8",".","*">>,  \* https://192.168.*
    <<"h","t","t","p",":","/","/","l","o","c","a","l","h","o","s","t",":","*">>,  \* http://localhost:*
    <<"h","t","t","p","s",":","/","/","l","o","c","a","l","h","o","s","t",":","*">>,  \* https://localhost:*
    <<"h","t","t","p",":","/","/","1","2","7",".","0",".","0",".","1",":","*">>,  \* http://127.0.0.1:*
    <<"h","t","t","p","s",":","/","/","1","2","7",".","0",".","0",".","1",":","*">>,  \* https://127.0.0.1:*
    <<"h","t","t","p",":","/","/","[",":",":","1","]",":","*">>,  \* http://[::1]:*
    <<"h","t","t","p","s",":","/","/","[",":",":","1","]",":","*">>  \* https://[::1]:*
  >>

RailwayPatterns ==
  <<
    <<"h","t","t","p","s",":","/","/","*",".","r","a","i","l","w","a","y",".","a","p","p">>,  \* https://*.railway.app
    <<"h","t","t","p","s",":","/","/","*",".","u","p",".","r","a","i","l","w","a","y",".","a","p","p">>,  \* https://*.up.railway.app
    <<"h","t","t","p",":","/","/","*",".","r","a","i","l","w","a","y",".","i","n","t","e","r","n","a","l">>,  \* http://*.railway.internal
    <<"h","t","t","p","s",":","/","/","*",".","r","a","i","l","w","a","y",".","i","n","t","e","r","n","a","l">>  \* https://*.railway.internal
  >>

O_lan == <<"h","t","t","p",":","/","/","1","9","2",".","1","6","8",".","1",".","5","0",":","4","0","0","0">>  \* http://192.168.1.50:4000
O_ten == <<"h","t","t","p",":","/","/","1","0",".","0",".","0",".","1",":","3","0","0","0">>  \* http://10.0.0.1:3000
O_172_16 == <<"h","t","t","p","s",":","/","/","1","7","2",".","1","6",".","0",".","1",":","8","0","8","0">>  \* https://172.16.0.1:8080
O_172_31 == <<"h","t","t","p",":","/","/","1","7","2",".","3","1",".","2","5","5",".","2","5","5">>  \* http://172.31.255.255
O_172_15 == <<"h","t","t","p",":","/","/","1","7","2",".","1","5",".","2","5","5",".","2","5","5">>  \* http://172.15.255.255
O_172_32 == <<"h","t","t","p",":","/","/","1","7","2",".","3","2",".","0",".","0">>  \* http://172.32.0.0
O_localhost == <<"h","t","t","p",":","/","/","l","o","c","a","l","h","o","s","t",":","3","0","0","0">>  \* http://localhost:3000
O_localhost_noport == <<"h","t","t","p",":","/","/","l","o","c","a","l","h","o","s","t">>  \* http://localhost
O_loopback == <<"h","t","t","p","s",":","/","/","1","2","7",".","0",".","0",".","1",":","8","0","8","0">>  \* https://127.0.0.1:8080
O_ipv6_loopback == <<"h","t","t","p",":","/","/","[",":",":","1","]",":","3","0","0","0">>  \* http://[::1]:3000
O_ipv6_ula == <<"h","t","t","p","s",":","/","/","[","f","c","0","0",":",":","1","]">>  \* https://[fc00::1]
O_railway == <<"h","t","t","p","s",":","/","/","m","y","a","p","p",".","r","a","i","l","w","a","y",".","a","p","p">>  \* https://myapp.railway.app
O_railway_caps == <<"H","T","T","P","S",":","/","/","M","y","A","p","p",".","R","a","i","l","w","a","y",".","A","p","p">>  \* HTTPS://MyApp.Railway.App
O_railway_up == <<"h","t","t","p","s",":","/","/","s","v","c",".","u","p",".","r","a","i","l","w","a","y",".","a","p","p">>  \* https://svc.up.railway.app
O_railway_apex == <<"h","t","t","p","s",":","/","/","r","a","i","l","w","a","y",".","a","p","p">>  \* https://railway.app
O_railway_http == <<"h","t","t","p",":","/","/","m","y","a","p","p",".","r","a","i","l","w","a","y",".","a","p","p">>  \* http://myapp.railway.app
O_evil == <<"h","t","t","p","s",":","/","/","e","v","i","l",".","e","x","a","m","p","l","e",".","c","o","m">>  \* https://evil.example.com
O_public_ip == <<"h","t","t","p",":","/","/","8",".","8",".","8",".","8",":","8","0">>  \* http://8.8.8.8:80
O_trusted == <<"h","t","t","p","s",":","/","/","t","r","u","s","t","e","d","-","c","l","i","e","n","t",".","c","o","m">>  \* https://trusted-client.com
O_trusted_caps == <<"h","t","t","p","s",":","/","/","T","r","u","s","t","e","d","-","C","l","i","e","n","t",".","c","o","m">>  \* https://Trusted-Client.com
O_ten_hostname == <<"h","t","t","p",":","/","/","1","0",".","e","v","i","l",".","c","o","m">>  \* http://10.evil.com
O_lan_hostname == <<"h","t","t","p","s",":","/","/","1","9","2",".","1","6","8",".","e","v","i","l",".","c","o","m">>  \* https://192.168.evil.com
O_sub == <<"h","t","t","p","s",":","/","/","a",".","e","x","a","m","p","l","e",".","c","o","m">>  \* https://a.example.com
O_sub_caps == <<"h","t","t","p","s",":","/","/","A",".","E","x","a","m","p","l","e",".","C","O","M">>  \* https://A.Example.COM
O_apex == <<"h","t","t","p","s",":","/","/","e","x","a","m","p","l","e",".","c","o","m">>  \* https://example.com
O_sub_suffix == <<"h","t","t","p","s",":","/","/","a",".","e","x","a","m","p","l","e",".","c","o","m",".","e","v","i","l",".","n","e","t">>  \* https://a.example.com.evil.net
O_sub_prefix == <<"x","h","t","t","p","s",":","/","/","a",".","e","x","a","m","p","l","e",".","c","o","m">>  \* xhttps://a.example.com
O_sub_nodot == <<"h","t","t","p","s",":","/","/","a","x","e","x","a","m","p","l","e",".","c","o","m">>  \* https://axexample.com
O_ftp == <<"f","t","p",":","/","/","u","n","s","u","p","p","o","r","t","e","d",".","c","o","m">>  \* ftp://unsupported.com
O_not_a_url == <<"n","o","t","-","a","-","u","r","l">>  \* not-a-url
O_no_host == <<"h","t","t","p",":","/","/">>  \* http://
O_bad_ipv6 == <<"h","t","t","p","s",":","/","/","[","i","n","v","a","l","i","d","-","i","p","v","6">>  \* https://[invalid-ipv6
O_bad_ipv4 == <<"h","t","t","p",":","/","/","1","0",".","0",".","0",".","9","9","9">>  \* http://10.0.0.999
O_bad_port == <<"h","t","t","p",":","/","/","l","o","c","a","l","h","o","s","t",":","n","o","t","a","p","o","r","t">>  \* http://localhost:notaport
O_bad_space == <<"h","t","t","p",":","/","/","1","9","2",".","1","6","8",".","1",".","1"," ","e","v","i","l">>  \* http://192.168.1.1 evil
O_empty == <<>>  \* the empty string

PAT_trusted == <<"h","t","t","p","s",":","/","/","t","r","u","s","t","e","d","-","c","l","i","e","n","t",".","c","o","m">>  \* https://trusted-client.com
PAT_example_wild == <<"h","t","t","p","s",":","/","/","*",".","e","x","a","m","p","l","e",".","c","o","m">>  \* https://*.example.com
PAT_ten_wild == <<"h","t","t","p",":","/","/","1","0",".","*">>  \* http://10.*
PAT_two_wild == <<"h","t","t","p","s",":","/","/","*",".","e","x","a","m","p","l","e",".","*">>  \* https://*.example.*

U_mcp == <<"/","m","c","p">>  \* /mcp
U_health == <<"/","h","e","a","l","t","h">>  \* /health
U_mcp_dot == <<"/",".","/","m","c","p">>  \* /./mcp
U_mcp_query == <<"/","m","c","p","?","x","=","1">>  \* /mcp?x=1
U_mcp_sub == <<"/","m","c","p","/","t","o","o","l","s">>  \* /mcp/tools
U_other == <<"/","o","t","h","e","r">>  \* /other
U_auth == <<"/","o","a","u","t","h">>  \* /oauth

H_ok == <<"l","o","c","a","l","h","o","s","t",":","3","0","0","0">>  \* localhost:3000
H_empty == <<>>  \* the empty string

(***************************************************************************)
(* new URL(origin) of the WHATWG URL parser, for absolute URL strings over *)
(* letters, digits and the punctuation of origins: scheme, "//", host,     *)
(* optional port.  The result is [ok, scheme, hostname]; ok = FALSE is the *)
(* TypeError the constructor throws.  IPv4 shorthand (fewer than four      *)
(* labels, octal or hexadecimal labels), userinfo and IPv6 compression     *)
(* are outside the strings this model feeds it.                            *)
(***************************************************************************)
SpecialSchemes == { <<"h","t","t","p">>, <<"h","t","t","p","s">>, <<"f","t","p">>,
                    <<"w","s">>, <<"w","s","s">> }

URLFailure == [ok |-> FALSE, scheme |-> <<>>, hostname |-> <<>>]

\* The forbidden host code points that occur in the modelled alphabet.
ForbiddenHostChar == {" ", "[", "]", "/", ":", "?", "#", "*"}

validScheme(s) ==
  /\ s # <<>>
  /\ s[1] \in UpperCase \cup LowerCase
  /\ \A i \in 1..Len(s) : s[i] \in UpperCase \cup LowerCase \cup Digit \cup {"+", "-", "."}

\* The host parser on a host that is not in brackets, labels being its
\* dot-separated labels: the IPv4 parser runs when the last label is a number,
\* and fails on a label that is no number or is above 255.
parseLabels(host, labels) ==
  IF \E i \in 1..Len(host) : host[i] \in ForbiddenHostChar THEN FALSE
  ELSE IF isDigits(labels[Len(labels)])
  THEN /\ Len(labels) <= 4
       /\ \A i \in 1..Len(labels) : isDigits(labels[i]) /\ decimalValue(labels[i]) <= 255
  ELSE TRUE

parseDomainOrIPv4(host) == parseLabels(host, split(host, "."))

\* The IPv6 parser on the text between the brackets.
parseIPv6(inner) ==
  /\ inner # <<>>
  /\ indexOfChar(inner, ":", 1) # 0
  /\ \A i \in 1..Len(inner) : toLowerChar(inner[i]) \in HexDigit \cup {":"}

validPort(p) == p = <<>> \/ (isDigits(p) /\ Len(p) <= 5 /\ decimalValue(p) <= 65535)

\* A port, or the empty text after the host.
validPortSuffix(tail) == tail = <<>> \/ (tail[1] = ":" /\ validPort(Tail(tail)))

URLParsed(scheme, hostname) == [ok |-> TRUE, scheme |-> scheme, hostname |-> hostname]

\* Host and port of an authority that does not start with "[".
parseHostPort(scheme, host, port) ==
  IF host = <<>> /\ scheme \in SpecialSchemes THEN URLFailure
  ELSE IF ~validPort(port) THEN URLFailure
  ELSE IF ~parseDomainOrIPv4(host) THEN URLFailure
  ELSE URLParsed(scheme, toLowerCase(host))

\* pc is the index of the first ":" of the authority, 0 if there is none.
parsePlainAuthority(scheme, auth, pc) ==
  IF pc = 0 THEN parseHostPort(scheme, auth, <<>>)
  ELSE parseHostPort(scheme, SubSeq(auth, 1, pc - 1), SubSeq(auth, pc + 1, Len(auth)))

\* An authority that starts with "[": close is the index of "]", 0 if none.
parseBracketedAuthority(scheme, auth, close) ==
  IF close = 0 THEN URLFailure
  ELSE IF ~parseIPv6(SubSeq(auth, 2, close - 1)) THEN URLFailure
  ELSE IF ~validPortSuffix(SubSeq(auth, close + 1, Len(auth))) THEN URLFailure
  ELSE URLParsed(scheme, toLowerCase(SubSeq(auth, 1, close)))

parseAuthority(scheme, auth) ==
  IF auth # <<>> /\ auth[1] = "["
  THEN parseBracketedAuthority(scheme, auth, indexOfChar(auth, "]", 1))
  ELSE parsePlainAuthority(scheme, auth, indexOfChar(auth, ":", 1))

\* The authority is the text up to the first "/", "?" or "#" (at index stop).
authorityOf(after, stop) == IF stop = 0 THEN after ELSE SubSeq(after, 1, stop - 1)

parseAfterSlashes(scheme, after) ==
  parseAuthority(scheme, authorityOf(after, indexOfAny(after, {"/", "?", "#"}, 1)))

\* Where the authority starts: special schemes skip every leading slash, the
\* others exactly "//".
authorityStart(scheme, rest) ==
  IF scheme \notin SpecialSchemes THEN 3
  ELSE IF \A i \in 1..Len(rest) : rest[i] = "/" THEN Len(rest) + 1
  ELSE firstIndex({i \in 1..Len(rest) : rest[i] # "/"})

parseAfterScheme(scheme, rest) ==
  IF scheme \notin SpecialSchemes /\ ~startsWith(rest, <<"/","/">>)
  THEN URLParsed(scheme, <<>>)              \* opaque path, no host
  ELSE parseAfterSlashes(scheme, SubSeq(rest, authorityStart(scheme, rest), Len(rest)))

\* colon is the index of the first ":" of the input, 0 if there is none.
parseFromScheme(input, colon) ==
  IF colon = 0 \/ ~validScheme(SubSeq(input, 1, colon - 1)) THEN URLFailure
  ELSE parseAfterScheme(toLowerCase(SubSeq(input, 1, colon - 1)),
                        SubSeq(input, colon + 1, Len(input)))

\* new URL(input): [ok, scheme, hostname]; ok is false when the constructor throws.
URLParse(input) == parseFromScheme(input, indexOfChar(input, ":", 1))

(***************************************************************************)
(* CORSMiddleware (cors-middleware.ts).  A policy is the middleware's      *)
(* config.origins: a sequence of patterns.                                 *)
(***************************************************************************)

\* A variant that leaves the dots of the pattern unescaped.
regexPatternNoDotEscape(pattern) ==
  LET b == replaceAll(pattern, "[", <<"\\", "[">>)
      c == replaceAll(b, "]", <<"\\", "]">>)
      d == replaceAll(c, ":", <<":">>)
  IN  replaceAll(d, "*", <<".", "*">>)

\* The regular-expression source matchesOriginPattern builds from a pattern:
\* the chain of replace() calls, in the order the code applies them.
regexPattern(pattern) ==
  replaceAll(
    replaceAll(
      replaceAll(
        replaceAll(
          replaceAll(pattern, ".", <<"\\", ".">>),
          "[", <<"\\", "[">>),
        "]", <<"\\", "]">>),
      ":", <<":">>),
    "*", <<".", "*">>)

\* new RegExp(source): the source read as a sequence of atoms, each a literal
\* character (escaped or plain) or "." (any character), optionally followed by
\* the quantifier "*".  The characters of the modelled alphabet other than
\* "\", "." and "*" have no special meaning in a regular expression outside
\* "[", "]", which the code escapes.
RECURSIVE regexCompile(_)
RECURSIVE compileAtom(_, _, _)
\* The atom at the head of src takes atomLen characters (2 when escaped) and is
\* starred when "*" follows it.
compileAtom(src, atomLen, starred) ==
  << [any |-> atomLen = 1 /\ src[1] = ".", ch |-> src[atomLen], star |-> starred] >>
    \o regexCompile(SubSeq(src, atomLen + (IF starred THEN 2 ELSE 1), Len(src)))

atomLength(src) == IF src[1] = "\\" /\ Len(src) >= 2 THEN 2 ELSE 1

regexCompile(src) ==
  IF src = <<>> THEN <<>>
  ELSE compileAtom(src, atomLength(src),
                   Len(src) > atomLength(src) /\ src[atomLength(src) + 1] = "*")

\* Whether an atom matches one character, under flag i when ignoreCase.
atomMatches(atom, c, ignoreCase) ==
  \/ atom.any
  \/ IF ignoreCase THEN toLowerChar(atom.ch) = toLowerChar(c) ELSE atom.ch = c

\* Whether atoms[i..] can match s[j..] up to the end of s (the "$" anchor).
RECURSIVE regexMatchFrom(_, _, _, _, _)
regexMatchFrom(atoms, i, s, j, ignoreCase) ==
  IF i > Len(atoms) THEN j = Len(s) + 1
  ELSE IF atoms[i].star
  THEN \/ regexMatchFrom(atoms, i + 1, s, j, ignoreCase)
       \/ /\ j <= Len(s)
          /\ atomMatches(atoms[i], s[j], ignoreCase)
          /\ regexMatchFrom(atoms, i, s, j + 1, ignoreCase)
  ELSE /\ j <= Len(s)
       /\ atomMatches(atoms[i], s[j], ignoreCase)
       /\ regexMatchFrom(atoms, i + 1, s, j + 1, ignoreCase)

\* new RegExp(`^${source}$`, 'i').test(s)
regexTest(source, s) == regexMatchFrom(regexCompile(source), 1, s, 1, TRUE)

\* CORSMiddleware.matchesOriginPattern
matchesOriginPattern(origin, pattern) ==
  IF origin = pattern THEN TRUE
  ELSE IF includes(pattern, <<"*">>) THEN regexTest(regexPattern(pattern), origin)
  ELSE FALSE

\* CORSMiddleware.validateOrigin: [allowed, hasOrigin, origin, reason].  The
\* argument is the Origin header: present says whether the request carried
\* one (req.headers.origin is undefined otherwise).
validateOrigin(origins, present, origin) ==
  IF ~present \/ origin = <<>>
  THEN [allowed |-> FALSE, hasOrigin |-> FALSE, origin |-> <<>>, reason |-> "No origin header provided"]
  ELSE IF \E i \in 1..Len(origins) : matchesOriginPattern(origin, origins[i])
  THEN [allowed |-> TRUE, hasOrigin |-> TRUE, origin |-> origin, reason |-> "none"]
  ELSE [allowed |-> FALSE, hasOrigin |-> TRUE, origin |-> origin, reason |-> "not in allowed list"]

\* A variant whose 172.16.0.0/12 range ends one second octet late.
isIPv4PrivateWide172(ipParts) ==
  IF Len(ipParts) # 4
     \/ \E i \in 1..Len(ipParts) : ipParts[i] = NaN \/ ipParts[i] < 0 \/ ipParts[i] > 255
  THEN FALSE
  ELSE \/ ipParts[1] = 10
       \/ (ipParts[1] = 172 /\ ipParts[2] >= 16 /\ ipParts[2] <= 32)
       \/ (ipParts[1] = 192 /\ ipParts[2] = 168)

\* CORSMiddleware.isIPv4PrivateRange
isIPv4Private(ipParts) ==
  IF Len(ipParts) # 4
     \/ \E i \in 1..Len(ipParts) : ipParts[i] = NaN \/ ipParts[i] < 0 \/ ipParts[i] > 255
  THEN FALSE
  ELSE \/ ipParts[1] = 10
       \/ (ipParts[1] = 172 /\ ipParts[2] >= 16 /\ ipParts[2] <= 31)
       \/ (ipParts[1] = 192 /\ ipParts[2] = 168)

\* .map(Number)
mapNumber(parts) == [i \in 1..Len(parts) |-> Number(parts[i])]

isIPv4PrivateRange(ip) == isIPv4Private(mapNumber(split(ip, ".")))

\* The checks of isPrivateNetworkOrigin on url.hostname.
isPrivateHostname(hostname) ==
  IF isIPv4PrivateRange(hostname) THEN TRUE
  ELSE IF /\ startsWith(hostname, <<"[">>) /\ endsWith(hostname, <<"]">>)
          /\ \/ startsWith(SubSeq(hostname, 2, Len(hostname) - 1), <<":", ":", "1">>)
             \/ startsWith(SubSeq(hostname, 2, Len(hostname) - 1), <<"f", "c">>)
             \/ startsWith(SubSeq(hostname, 2, Len(hostname) - 1), <<"f", "d">>)
       THEN TRUE
  ELSE IF \/ hostname = <<"l","o","c","a","l","h","o","s","t">>
          \/ hostname = <<"1","2","7",".","0",".","0",".","1">>
          \/ hostname = <<":", ":", "1">>
       THEN TRUE
  ELSE FALSE

isPrivateURL(url) == IF ~url.ok THEN FALSE ELSE isPrivateHostname(url.hostname)

\* CORSMiddleware.isPrivateNetworkOrigin: false when new URL(origin) throws.
isPrivateNetworkOrigin(origin) == isPrivateURL(URLParse(origin))

\* CORSMiddleware constructor: {...DEFAULT_CORS_CONFIG, ...config}.origins, where
\* overrides says whether config carries an origins field.
newCORSMiddleware(overrides, origins) ==
  IF overrides THEN origins ELSE DEFAULT_CORS_CONFIG_origins

\* createCORSMiddleware(envOrigins)
createCORSMiddleware(envOrigins) ==
  IF Len(envOrigins) > 0
  THEN newCORSMiddleware(TRUE, DEFAULT_CORS_CONFIG_origins \o envOrigins)
  ELSE newCORSMiddleware(FALSE, <<>>)

\* CORSMiddleware.updateConfig({origins: newOrigins}): the new origins field
\* replaces the old one.
updateConfig(oldOrigins, newOrigins) == newOrigins

\* [...new Set(xs)]: first occurrences, in order.
nthOf(keep, k) == CHOOSE i \in keep : Cardinality({ j \in keep : j <= i }) = k

selectIndices(xs, keep) == [k \in 1..Cardinality(keep) |-> xs[nthOf(keep, k)]]

dedupe(xs) ==
  selectIndices(xs, { i \in 1..Len(xs) : \A j \in 1..(i - 1) : xs[j] # xs[i] })

\* config.ts generatePrivateNetworkOrigins
generatePrivateNetworkOrigins(config) ==
  (IF config.allowPrivateNetworkAccess THEN PrivateNetworkPatterns ELSE <<>>)
    \o (IF config.railwayInternalAccess THEN RailwayPatterns ELSE <<>>)

\* config.ts getMergedCORSOrigins
getMergedCORSOrigins(config) ==
  dedupe(config.corsOrigins \o generatePrivateNetworkOrigins(config))

\* HttpServerTransport constructor: the origins of this.corsMiddleware.
constructorPolicy(config) == createCORSMiddleware(getMergedCORSOrigins(config))

\* The value of the Access-Control-Allow-Origin header setCORSHeaders sets.
setCORSHeaders(validationResult) ==
  IF validationResult.allowed /\ validationResult.origin # <<>>
  THEN validationResult.origin
  ELSE <<"n","u","l","l">>

\* .slice(0, 5)
firstFive(xs) == SubSeq(xs, 1, IF Len(xs) < 5 THEN Len(xs) ELSE 5)

(***************************************************************************)
(* new URL(req.url, `http://${req.headers.host}`).pathname for a request   *)
(* target in origin form (starting with "/"): the path up to "?" or "#",   *)
(* with "." segments removed and ".." segments resolved.                   *)
(***************************************************************************)
RECURSIVE removeDotSegments(_, _)
removeDotSegments(segs, acc) ==
  IF segs = <<>> THEN acc
  ELSE LET s    == Head(segs)
           last == Len(segs) = 1
       IN  IF s = <<".">>
           THEN removeDotSegments(Tail(segs), IF last THEN Append(acc, <<>>) ELSE acc)
           ELSE IF s = <<".", ".">>
           THEN LET popped == IF acc = <<>> THEN acc ELSE SubSeq(acc, 1, Len(acc) - 1)
                IN  removeDotSegments(Tail(segs), IF last THEN Append(popped, <<>>) ELSE popped)
           ELSE removeDotSegments(Tail(segs), Append(acc, s))

RECURSIVE joinPath(_)
joinPath(segs) ==
  IF segs = <<>> THEN <<>> ELSE <<"/">> \o Head(segs) \o joinPath(Tail(segs))

\* The path of a request target: the text before the first "?" or "#" (at stop).
pathOf(url, stop) == IF stop = 0 THEN url ELSE SubSeq(url, 1, stop - 1)

serialize(segs) == IF segs = <<>> THEN <<"/">> ELSE joinPath(segs)

normalize(path) ==
  serialize(removeDotSegments(split(SubSeq(path, 2, Len(path)), "/"), <<>>))

pathname(url) == normalize(pathOf(url, indexOfAny(url, {"?", "#"}, 1)))

\* Whether new URL(req.url, base) succeeds: the base must parse.
baseURL(host) == <<"h","t","t","p",":","/","/">> \o host

\* DEFAULT_CORS_CONFIG without its origins.
DefaultCORSFields ==
  [ methods |-> <<"GET", "POST", "OPTIONS">>,
    allowedHeaders |-> <<"Content-Type", "Authorization", "X-Requested-With",
                         "Accept", "Origin">>,
    credentials |-> FALSE,
    maxAge |-> 86400 ]

(***************************************************************************)
(* State.                                                                  *)
(***************************************************************************)
VARIABLES
  config,     \* ServerConfig the transport was constructed with
  policy,     \* corsMiddleware.config.origins, replaced as a whole by updateConfig
  nUpdates,   \* number of updateCORSConfig / updateConfig calls so far
  conn,       \* per connection: the request and what the handler did with it
  call,       \* the last direct call on a CORSMiddleware and its result
  bind,       \* the state of a bindToOptimalNetwork call
  life,       \* the transport's isRunning, httpServer and bindResult fields and
              \* the position of its start() and stop() calls
  sup,        \* the ServerState that owns the transports, and the process
  corsConfig  \* corsMiddleware.config without its origins: methods,
              \* allowedHeaders, credentials and maxAge

vars == <<config, policy, nUpdates, conn, call, bind, life, sup, corsConfig>>


(***************************************************************************)
(* NetworkStackInfo, the result of detectNetworkStack.                     *)
(***************************************************************************)
NoStack == [ipv4Available |-> FALSE, ipv6Available |-> FALSE, preferredStack |-> "none"]

\* A variant whose inert default is ipv6.
preferredStackIPv6Default(ipv4Available, ipv6Available) ==
  IF ipv4Available /\ ipv6Available THEN "dual"
  ELSE IF ipv4Available THEN "ipv4"
  ELSE "ipv6"

\* detectNetworkStack: preferredStack from the two probe results.
preferredStack(ipv4Available, ipv6Available) ==
  IF ipv4Available /\ ipv6Available THEN "dual"
  ELSE IF ipv6Available THEN "ipv6"
  ELSE "ipv4"


(***************************************************************************)
(* Inputs.                                                                 *)
(***************************************************************************)
\* Origin header values the direct calls on the middleware are made with.
OriginInputs ==
  { O_lan, O_ten, O_172_16, O_172_31, O_172_15, O_172_32, O_localhost,
    O_localhost_noport, O_loopback, O_ipv6_loopback, O_ipv6_ula, O_railway,
    O_railway_caps, O_railway_up, O_railway_apex, O_railway_http, O_evil,
    O_public_ip, O_trusted, O_trusted_caps, O_ten_hostname, O_lan_hostname,
    O_sub, O_sub_caps, O_apex, O_sub_suffix, O_sub_prefix, O_sub_nodot, O_ftp,
    O_not_a_url, O_no_host, O_bad_ipv6, O_bad_ipv4, O_bad_port, O_bad_space,
    O_empty }

\* Patterns a policy is configured or updated with.
PatternInputs == { PAT_trusted, PAT_example_wild, PAT_ten_wild, PAT_two_wild }

\* Longest origin list passed to updateConfig / updateCORSConfig.
MaxPolicyLen == 2

\* Most updateCORSConfig calls on the transport in one run.
MaxUpdates == 2

extendedBy(shorter, S) == shorter \cup { Append(s, x) : s \in shorter, x \in S }

RECURSIVE SeqsUpTo(_, _)
SeqsUpTo(S, n) == IF n = 0 THEN { <<>> } ELSE extendedBy(SeqsUpTo(S, n - 1), S)

PolicyInputs == SeqsUpTo(PatternInputs, MaxPolicyLen)

\* Requests the transport is sent.
Conns == {"c1"}
MethodInputs == {"GET", "POST", "OPTIONS", "DELETE"}
UrlInputs == { U_mcp, U_health, U_mcp_dot, U_mcp_query, U_mcp_sub, U_other, U_auth }
RequestOriginInputs == { O_lan, O_evil, O_trusted, O_ten_hostname, O_empty }
HostInputs == { H_ok, H_empty }
BodyInputs == {"invalidJson", "null", "noMethod", "initialize", "tools/list", "tools/call", "bogus"}
IdInputs == {"undefined", "1"}
ParamsInputs == {"undefined", "p1"}

\* corsOrigins (CORS_ORIGINS) the transport is configured with.
ConfiguredOriginInputs == { <<>>, <<PAT_trusted>> }

\* Origin lists updateCORSConfig is called with.
UpdateOriginInputs == { <<>>, <<PAT_trusted>>, <<PAT_ten_wild>> }

ConfigInputs ==
  [ corsOrigins : ConfiguredOriginInputs,
    allowPrivateNetworkAccess : BOOLEAN,
    railwayInternalAccess : BOOLEAN ]

(***************************************************************************)
(* Direct calls on a CORSMiddleware.                                       *)
(***************************************************************************)
NoCall == [op |-> "none", present |-> FALSE, origin |-> <<>>, origins |-> <<>>,
           allowed |-> FALSE, isPrivate |-> FALSE]

CallValidateOrigin(present, origin) ==
  /\ call' = [op |-> "validateOrigin", present |-> present, origin |-> origin,
              origins |-> policy,
              allowed |-> validateOrigin(policy, present, origin).allowed,
              isPrivate |-> FALSE]
  /\ UNCHANGED <<config, policy, nUpdates, conn, bind, life, sup, corsConfig>>

CallIsPrivateNetworkOrigin(origin) ==
  /\ call' = [op |-> "isPrivateNetworkOrigin", present |-> TRUE, origin |-> origin,
              origins |-> policy, allowed |-> FALSE,
              isPrivate |-> isPrivateNetworkOrigin(origin)]
  /\ UNCHANGED <<config, policy, nUpdates, conn, bind, life, sup, corsConfig>>

CallUpdateConfig(newOrigins) ==
  /\ policy' = updateConfig(policy, newOrigins)
  /\ call' = [op |-> "updateConfig", present |-> FALSE, origin |-> <<>>,
              origins |-> policy', allowed |-> FALSE, isPrivate |-> FALSE]
  /\ UNCHANGED <<config, nUpdates, conn, bind, life, sup, corsConfig>>

(***************************************************************************)
(* HttpServerTransport: one connection's request through handleRequest.    *)
(***************************************************************************)
NoBody == [kind |-> "none", error |-> "", message |-> "", hasOrigin |-> FALSE,
           origin |-> <<>>, isPrivateNetwork |-> FALSE, allowedPatterns |-> <<>>,
           jsonrpc |-> FALSE, id |-> "absent", code |-> 0, data |-> "absent",
           health |-> "none", checks |-> <<>>]

\* No call of mcpServer.request.
NoCoreCall == [method |-> "none", params |-> "undefined", outcome |-> "none"]

IdleConn == [st |-> "idle", method |-> "none", url |-> <<>>, host |-> <<>>,
             hasOrigin |-> FALSE, origin |-> <<>>, seen |-> <<>>, allowed |-> FALSE,
             reason |-> "none", acao |-> <<>>, routed |-> FALSE,
             parsed |-> FALSE, dispatched |-> FALSE, forwarded |-> 0,
             text |-> "none", sentId |-> "undefined",
             rpc |-> "none", reqId |-> "undefined", params |-> "undefined",
             core |-> NoCoreCall, policyRead |-> <<>>, bound |-> FALSE, stack |-> NoStack,
             hasCredentials |-> FALSE, hasOAuthKeys |-> FALSE, logged |-> FALSE,
             status |-> 0, body |-> NoBody]

ErrorBody(msg) == [NoBody EXCEPT !.kind = "error", !.error = msg]

Respond(r, status, body) == [r EXCEPT !.st = "done", !.status = status, !.body = body]

\* The request after setCORSHeaders ran with validation result v.
withCORSHeaders(r, v) ==
  [r EXCEPT !.allowed = v.allowed, !.reason = v.reason, !.acao = setCORSHeaders(v)]

\* req.headers.origin is truthy.
truthyOrigin(r) == r.hasOrigin /\ r.origin # <<>>

\* handlePreflightRequest after setCORSHeaders returned v.  logged records the
\* console.warn of a refused validation.
preflightResponse(r, origins, v) ==
  IF ~v.allowed
  THEN Respond([withCORSHeaders(r, v) EXCEPT !.logged = TRUE], 403,
               [NoBody EXCEPT !.kind = "preflightRejected",
                              !.error = "CORS policy violation",
                              !.message = v.reason,
                              !.hasOrigin = r.hasOrigin,
                              !.origin = r.origin,
                              !.isPrivateNetwork =
                                 IF truthyOrigin(r) THEN isPrivateNetworkOrigin(r.origin)
                                 ELSE FALSE,
                              !.allowedPatterns = firstFive(origins)])
  ELSE Respond(withCORSHeaders(r, v), 200, [NoBody EXCEPT !.kind = "empty"])

\* CORSMiddleware.handlePreflightRequest, for a request whose method is OPTIONS.
handlePreflightRequest(r, origins) ==
  preflightResponse(r, origins, validateOrigin(origins, r.hasOrigin, r.origin))

\* isSecureEndpoint of handleRequest, on the raw request target.
isSecureEndpoint(url) ==
  url # <<>> /\ (startsWith(url, <<"/","m","c","p">>) \/ includes(url, <<"a","u","t","h">>))

\* A variant whose /health accepts GET only.
routePathHealthGetOnly(t, p) ==
  IF p = <<"/","h","e","a","l","t","h">>
  THEN IF t.method # "GET"
       THEN Respond(t, 405, ErrorBody("Method not allowed for health check"))
       ELSE [t EXCEPT !.st = "health"]
  ELSE IF p = <<"/","m","c","p">>
  THEN IF t.method # "POST"
       THEN Respond(t, 405, ErrorBody("Method not allowed. Use POST for MCP requests."))
       ELSE [t EXCEPT !.st = "body"]
  ELSE Respond(t, 404, ErrorBody("Endpoint not found"))

\* The routing part of handleRequest, for a request t whose URL has pathname p.
routePath(t, p) ==
  IF p = <<"/","h","e","a","l","t","h">>
  THEN IF t.method # "GET" /\ t.method # "POST"
       THEN Respond(t, 405, ErrorBody("Method not allowed for health check"))
       ELSE [t EXCEPT !.st = "health"]
  ELSE IF p = <<"/","m","c","p">>
  THEN IF t.method # "POST"
       THEN Respond(t, 405, ErrorBody("Method not allowed. Use POST for MCP requests."))
       ELSE [t EXCEPT !.st = "body"]
  ELSE Respond(t, 404, ErrorBody("Endpoint not found"))

\* new URL(req.url, base) and the routing on its pathname; when new URL throws,
\* the handler's promise rejects.
route(q) ==
  IF ~URLParse(baseURL(q.host)).ok
  THEN [q EXCEPT !.st = "threw"]
  ELSE routePath([q EXCEPT !.routed = TRUE], pathname(q.url))

\* handleRequest after setCORSHeaders returned v: the check on secure endpoints,
\* then the routing.
secureEndpointGate(r, v) ==
  IF isSecureEndpoint(r.url) /\ truthyOrigin(r) /\ ~v.allowed
  THEN Respond([withCORSHeaders(r, v) EXCEPT !.logged = TRUE], 403,
               [NoBody EXCEPT !.kind = "corsRejected",
                              !.error = "CORS policy violation",
                              !.message = "Origin not allowed for this endpoint"])
  ELSE route(withCORSHeaders(r, v))

\* A variant that routes OPTIONS requests like any other method.
handleRequestRouteOptions(r, origins) ==
  secureEndpointGate(r, validateOrigin(origins, r.hasOrigin, r.origin))

\* HttpServerTransport.handleRequest up to its first await.
handleRequest(r, origins) ==
  IF r.method = "OPTIONS" THEN handlePreflightRequest(r, origins)
  ELSE secureEndpointGate(r, validateOrigin(origins, r.hasOrigin, r.origin))

\* A request arrives on connection c and handleRequest runs to its first await.
ArriveWith(c, method, url, host, hasOrigin, origin) ==
  /\ life.httpServer = "listening"
  /\ conn[c].st = "idle"
  /\ conn' = [conn EXCEPT ![c] =
                handleRequest([IdleConn EXCEPT !.method = method, !.url = url,
                                               !.host = host, !.hasOrigin = hasOrigin,
                                               !.origin = origin, !.seen = policy],
                              policy)]
  /\ UNCHANGED <<config, policy, nUpdates, call, bind, life, sup, corsConfig>>

Arrive(c) ==
  \E method \in MethodInputs, url \in UrlInputs, host \in HostInputs,
     hasOrigin \in BOOLEAN, origin \in RequestOriginInputs :
       /\ (~hasOrigin => origin = O_empty)
       /\ ArriveWith(c, method, url, host, hasOrigin, origin)

\* A variant that forwards every method but initialize to the external core.
processMcpRequestForwardsAll(q) ==
  IF q.rpc = "initialize"
  THEN Respond(q, 200, [NoBody EXCEPT !.kind = "rpcResult", !.jsonrpc = TRUE, !.id = q.reqId])
  ELSE [q EXCEPT !.st = "core", !.forwarded = q.forwarded + 1,
                 !.core = [method |-> q.rpc, params |-> q.params, outcome |-> "pending"]]

\* HttpServerTransport.processMcpRequest up to the call of the external core.
processMcpRequest(q) ==
  IF q.rpc = "initialize"
  THEN Respond(q, 200, [NoBody EXCEPT !.kind = "rpcResult", !.jsonrpc = TRUE, !.id = q.reqId])
  ELSE IF q.rpc \in {"tools/list", "tools/call"}
  THEN [q EXCEPT !.st = "core", !.forwarded = q.forwarded + 1,
                 !.core = [method |-> q.rpc, params |-> q.params, outcome |-> "pending"]]
  ELSE Respond(q, 200, [NoBody EXCEPT !.kind = "rpcError", !.jsonrpc = TRUE, !.id = q.reqId,
                                      !.code = -32601, !.message = "Method not found"])

\* HttpServerTransport.handleMcpRequest once readRequestBody resolved with a body:
\* body is what the text is (not JSON, the JSON value null, an object without
\* method, or an envelope with that method), id and params the envelope's id
\* and params if any.
handleMcpRequest(r, body, id, params) ==
  IF body = "invalidJson"
  THEN Respond([r EXCEPT !.parsed = TRUE, !.text = body],
               400, ErrorBody("Invalid JSON in request body"))
  ELSE IF body = "null"
  THEN \* null.method throws a TypeError, caught by the outer catch
       Respond([r EXCEPT !.parsed = TRUE, !.text = body], 500,
               [ErrorBody("Internal server error") EXCEPT !.message = "TypeError"])
  ELSE IF body = "noMethod"
  THEN Respond([r EXCEPT !.parsed = TRUE, !.text = body, !.sentId = id], 400,
               ErrorBody("Invalid MCP request format: missing method"))
  ELSE processMcpRequest([r EXCEPT !.parsed = TRUE, !.text = body, !.sentId = id,
                                   !.dispatched = TRUE, !.rpc = body,
                                   !.reqId = IF id = "undefined" THEN "null" ELSE id,
                                   !.params = params])

\* The request's 'end' event: readRequestBody resolves.
BodyEndWith(c, body, id, params) ==
  /\ conn[c].st = "body"
  /\ conn' = [conn EXCEPT ![c] = handleMcpRequest(conn[c], body, id, params)]
  /\ UNCHANGED <<config, policy, nUpdates, call, bind, life, sup, corsConfig>>

BodyEnd(c) ==
  \E body \in BodyInputs, id \in IdInputs, params \in ParamsInputs :
     /\ (body \in {"invalidJson", "null"} => id = "undefined" /\ params = "undefined")
     /\ BodyEndWith(c, body, id, params)

\* The request's 'error' event: readRequestBody rejects, the outer catch answers 500.
BodyError(c) ==
  /\ conn[c].st = "body"
  /\ conn' = [conn EXCEPT ![c] =
                Respond(conn[c], 500, [ErrorBody("Internal server error")
                                         EXCEPT !.message = "request error"])]
  /\ UNCHANGED <<config, policy, nUpdates, call, bind, life, sup, corsConfig>>

\* Messages of the errors the external core fails with.
CoreErrorInputs == {"Gmail API error"}

\* A variant in which the core's failure escapes processMcpRequest.
coreSettledEscapes(q, ok, message) ==
  IF ok
  THEN Respond([q EXCEPT !.core.outcome = "resolved"], 200,
               [NoBody EXCEPT !.kind = "coreResult"])
  ELSE [q EXCEPT !.core.outcome = "rejected", !.st = "threw"]

\* processMcpRequest and handleMcpRequest once mcpServer.request settled: what
\* the core resolved with is returned and written as it is (the core was given
\* the method and the params, not the id); a rejection or a throw is caught by
\* processMcpRequest and becomes {error: {code: -32603, message, data}}.
coreSettled(q, ok, message) ==
  IF ok
  THEN Respond([q EXCEPT !.core.outcome = "resolved"], 200,
               [NoBody EXCEPT !.kind = "coreResult"])
  ELSE Respond([q EXCEPT !.core.outcome = "rejected"], 200,
               [NoBody EXCEPT !.kind = "rpcError", !.code = -32603,
                              !.message = "Internal error", !.data = message])

\* mcpServer.request settles.
CoreReply(c, ok) ==
  \E message \in CoreErrorInputs :
     /\ conn[c].st = "core"
     /\ conn' = [conn EXCEPT ![c] = coreSettled(conn[c], ok, message)]
     /\ UNCHANGED <<config, policy, nUpdates, call, bind, life, sup, corsConfig>>

\* A variant in which a degraded check outweighs an unhealthy one.
overallStatusDegradedFirst(checks) ==
  IF \E k \in DOMAIN checks : checks[k] = "degraded" THEN "degraded"
  ELSE IF \E k \in DOMAIN checks : checks[k] = "unhealthy" THEN "unhealthy"
  ELSE "healthy"

\* The aggregate of the checks: unhealthy if any is, else degraded if any is.
overallStatus(checks) ==
  IF \E k \in DOMAIN checks : checks[k] = "unhealthy" THEN "unhealthy"
  ELSE IF \E k \in DOMAIN checks : checks[k] = "degraded" THEN "degraded"
  ELSE "healthy"

\* The statuses of the six checks of getHealthStatus.  hasCredentials and
\* hasOAuthKeys are what fs.existsSync finds; the server check reads bindResult
\* for its port, address and family only and is healthy in every case, as the
\* mcp check is for a transport built with a server; the network check runs
\* detectNetworkStack, which resolves whatever it finds.
healthChecks(origins, hasCredentials, hasOAuthKeys, result) ==
  [ server      |-> "healthy",
    mcp         |-> "healthy",
    gmail       |-> IF hasCredentials THEN "healthy" ELSE "degraded",
    credentials |-> IF hasOAuthKeys /\ hasCredentials THEN "healthy"
                    ELSE IF hasOAuthKeys THEN "degraded"
                    ELSE "unhealthy",
    network     |-> "healthy",
    cors        |-> IF Len(origins) > 0 THEN "healthy" ELSE "degraded" ]

\* HttpServerTransport.getHealthStatus: the aggregate of the six checks.
getHealthStatus(origins, hasCredentials, hasOAuthKeys, result) ==
  overallStatus(healthChecks(origins, hasCredentials, hasOAuthKeys, result))

\* checkNetworkHealth: the NetworkStackInfo its detectNetworkStack call
\* returns, from what the two probes find this time.
detectNetworkStack(ipv4Available, ipv6Available) ==
  [ipv4Available |-> ipv4Available, ipv6Available |-> ipv6Available,
   preferredStack |-> preferredStack(ipv4Available, ipv6Available)]

\* handleHealthCheck once getHealthStatus resolved with status over checks: the
\* response, and what the request read on the way (the files found, whether a
\* bindResult was there, the policy the cors check read, the stack that
\* checkNetworkHealth detected).
healthResponse(q, status, checks, hasCredentials, hasOAuthKeys, result, origins, stackInfo) ==
  Respond([q EXCEPT !.policyRead = origins, !.bound = result.success, !.stack = stackInfo,
                    !.hasCredentials = hasCredentials, !.hasOAuthKeys = hasOAuthKeys],
          IF status = "healthy" THEN 200 ELSE 503,
          [NoBody EXCEPT !.kind = "health", !.health = status, !.checks = checks])

\* A variant that answers a health check only once no other request is in
\* flight.
HealthDoneOneAtATime(c) ==
  \E hasCredentials \in BOOLEAN, hasOAuthKeys \in BOOLEAN,
     ipv4Available \in BOOLEAN, ipv6Available \in BOOLEAN :
     /\ conn[c].st = "health"
     /\ \A other \in DOMAIN conn \ {c} : conn[other].st \in {"idle", "done", "threw"}
     /\ conn' = [conn EXCEPT ![c] =
                   healthResponse(conn[c],
                     getHealthStatus(policy, hasCredentials, hasOAuthKeys, life.bindResult),
                     healthChecks(policy, hasCredentials, hasOAuthKeys, life.bindResult),
                     hasCredentials, hasOAuthKeys, life.bindResult, policy,
                     detectNetworkStack(ipv4Available, ipv6Available))]
     /\ UNCHANGED <<config, policy, nUpdates, call, bind, life, sup, corsConfig>>

\* HttpServerTransport.handleHealthCheck once getHealthStatus resolved.
HealthDone(c) ==
  \E hasCredentials \in BOOLEAN, hasOAuthKeys \in BOOLEAN,
     ipv4Available \in BOOLEAN, ipv6Available \in BOOLEAN :
     /\ conn[c].st = "health"
     /\ conn' = [conn EXCEPT ![c] =
                   healthResponse(conn[c],
                     getHealthStatus(policy, hasCredentials, hasOAuthKeys, life.bindResult),
                     healthChecks(policy, hasCredentials, hasOAuthKeys, life.bindResult),
                     hasCredentials, hasOAuthKeys, life.bindResult, policy,
                     detectNetworkStack(ipv4Available, ipv6Available))]
     /\ UNCHANGED <<config, policy, nUpdates, call, bind, life, sup, corsConfig>>

\* The connection ends (response sent, or the handler threw); it can carry the
\* next request.
Close(c) ==
  /\ conn[c].st \in {"done", "threw"}
  /\ conn' = [conn EXCEPT ![c] = IdleConn]
  /\ UNCHANGED <<config, policy, nUpdates, call, bind, life, sup, corsConfig>>

\* HttpServerTransport.updateCORSConfig(newOrigins), newOrigins an array.
UpdateCORSConfig(newOrigins) ==
  /\ nUpdates < MaxUpdates
  /\ policy' = updateConfig(policy, newOrigins)
  /\ nUpdates' = nUpdates + 1
  /\ UNCHANGED <<config, conn, call, bind, life, sup, corsConfig>>

(***************************************************************************)
(* Network binder (network-utils): detectNetworkStack, the binding         *)
(* strategy and the bind cascade of one bindToOptimalNetwork call.         *)
(*                                                                         *)
(* What the operating system does with a listen() is the environment's     *)
(* choice, fixed when the socket is asked to listen (fate): it reports     *)
(* 'listening', reports 'error', makes listen() throw, or reports nothing. *)
(***************************************************************************)
FateInputs == {"listening", "error", "throw", "silent"}
ProbeFateInputs == {"listening", "error", "silent"}
ErrorInputs == {"EADDRINUSE", "EACCES"}

\* ServerConfig.host: parseServerConfig's two defaults, and a literal loopback.
HostConfigInputs == {"localhost", "0.0.0.0", "127.0.0.1"}

\* createNetworkConfig: dualStack and preferIPv6 come from the environment,
\* bindAddress from preferIPv6 and the configured host.
createNetworkConfig(dualStack, preferIPv6, host) ==
  [dualStack |-> dualStack, preferIPv6 |-> preferIPv6,
   bindAddress |-> IF preferIPv6 THEN "::" ELSE host]

NetworkConfigInputs ==
  { createNetworkConfig(dualStack, preferIPv6, host) :
      dualStack \in BOOLEAN, preferIPv6 \in BOOLEAN, host \in HostConfigInputs }

\* What server._handle.setIPv6Only(false) does in the callback of listen():
\* it clears the option, it throws, or the handle has no such method.
RelaxInputs == {"cleared", "threw", "unsupported"}

\* A socket the binder created and has not closed: a probe's test server or a
\* candidate's server.
Socket(kind, address) == [kind |-> kind, address |-> address]

NoResult == [success |-> FALSE, address |-> "none", family |-> "none",
             error |-> "none", server |-> FALSE]

\* probes is the fate each probe met, open the sockets created and not closed,
\* relaxed what became of setIPv6Only(false) on the listening candidate.
IdleBind == [pc |-> "idle", cfg |-> createNetworkConfig(FALSE, FALSE, "localhost"),
             stack |-> NoStack, strategy |-> "none", plan |-> <<>>, fate |-> "none",
             attempts |-> <<>>, result |-> NoResult,
             probes |-> <<>>, open |-> {}, relaxed |-> "none"]

\* A variant that picks IPv4 whenever it is available.
determineBindingStrategyIPv4First(networkConfig, stackInfo) ==
  IF networkConfig.dualStack /\ stackInfo.ipv6Available THEN "ipv6-dual"
  ELSE IF stackInfo.ipv4Available THEN "ipv4-only"
  ELSE IF networkConfig.preferIPv6 /\ stackInfo.ipv6Available THEN "ipv6-only"
  ELSE "ipv6-only"

\* determineBindingStrategy
determineBindingStrategy(networkConfig, stackInfo) ==
  IF networkConfig.dualStack /\ stackInfo.ipv6Available THEN "ipv6-dual"
  ELSE IF networkConfig.preferIPv6 /\ stackInfo.ipv6Available THEN "ipv6-only"
  ELSE IF stackInfo.ipv6Available /\ ~stackInfo.ipv4Available THEN "ipv6-only"
  ELSE IF stackInfo.ipv4Available THEN "ipv4-only"
  ELSE "ipv6-only"

Candidate(address, family) == [address |-> address, family |-> family]

\* A variant that tries the loopback address before the wildcard addresses.
candidatesLoopbackFirst(strategy) ==
  IF strategy = "ipv6-dual"
  THEN << Candidate("127.0.0.1", "IPv4"), Candidate("::", "IPv6"), Candidate("0.0.0.0", "IPv4") >>
  ELSE << Candidate("127.0.0.1", "IPv4") >>

\* The tryBindWithLogging calls attemptBinding makes for a strategy, in program
\* order: attemptBindingWithFallback's three for ipv6-dual, one otherwise.
candidates(strategy) ==
  IF strategy = "ipv6-dual"
  THEN << Candidate("::", "IPv6"), Candidate("0.0.0.0", "IPv4"), Candidate("127.0.0.1", "IPv4") >>
  ELSE IF strategy = "ipv6-only" THEN << Candidate("::", "IPv6") >>
  ELSE IF strategy = "ipv4-only" THEN << Candidate("0.0.0.0", "IPv4") >>
  ELSE <<>>

\* attemptBinding: the default branch of its switch throws.
attemptBinding(b, strategy, fate) ==
  IF strategy \notin {"ipv6-dual", "ipv6-only", "ipv4-only"}
  THEN [b EXCEPT !.pc = "threw", !.strategy = strategy]
  ELSE [b EXCEPT !.pc = "attempt", !.strategy = strategy,
                 !.plan = candidates(strategy), !.fate = fate,
                 !.open = b.open \cup {Socket("bind", candidates(strategy)[1].address)}]

\* The BindResult tryBind resolves with for candidate cand.
bindResult(cand, ok, error) ==
  [success |-> ok, address |-> cand.address, family |-> cand.family,
   error |-> IF ok THEN "none" ELSE error, server |-> ok]

\* The caller's statement after an attempt resolved with outcome: return the
\* success, try the next candidate (whose listen() meets nextFate), or return
\* the last failure.
\* A server that reported 'listening' stays open; one whose listen() failed
\* has lost its handle, and the next candidate gets a server of its own.
afterAttempt(b, outcome, nextFate) ==
  IF outcome.success
  THEN [b EXCEPT !.attempts = Append(b.attempts, outcome), !.pc = "returned",
                 !.fate = "none", !.result = outcome]
  ELSE IF Len(b.attempts) + 1 = Len(b.plan)
  THEN [b EXCEPT !.attempts = Append(b.attempts, outcome), !.pc = "returned",
                 !.fate = "none", !.result = outcome,
                 !.open = b.open \ {Socket("bind", outcome.address)}]
  ELSE [b EXCEPT !.attempts = Append(b.attempts, outcome), !.fate = nextFate,
                 !.open = (b.open \ {Socket("bind", outcome.address)})
                            \cup {Socket("bind", b.plan[Len(b.attempts) + 2].address)}]

\* A variant that goes on to the next candidate after a success.
tryBindResolvedKeepGoing(b, ok, error, nextFate) ==
  IF Len(b.attempts) + 1 = Len(b.plan)
  THEN afterAttempt(b, bindResult(b.plan[Len(b.attempts) + 1], ok, error), nextFate)
  ELSE [b EXCEPT !.attempts = Append(b.attempts,
                                     bindResult(b.plan[Len(b.attempts) + 1], ok, error)),
                 !.fate = nextFate]

\* A variant that reports the first candidate's failure instead of the last.
tryBindResolvedFirstError(b, ok, error, nextFate) ==
  IF ~ok /\ b.attempts # <<>> /\ Len(b.attempts) + 1 = Len(b.plan)
  THEN [afterAttempt(b, bindResult(b.plan[Len(b.attempts) + 1], ok, error), nextFate)
          EXCEPT !.result = b.attempts[1]]
  ELSE afterAttempt(b, bindResult(b.plan[Len(b.attempts) + 1], ok, error), nextFate)

\* tryBind resolved for the candidate being attempted (onListening or onError).
tryBindResolved(b, ok, error, nextFate) ==
  afterAttempt(b, bindResult(b.plan[Len(b.attempts) + 1], ok, error), nextFate)

\* bindToOptimalNetwork(networkConfig, createServerFn) is called: detectNetworkStack
\* starts its IPv4 probe, testNetworkBinding('0.0.0.0', 0).
bindToOptimalNetwork(networkConfig, fate) ==
  [IdleBind EXCEPT !.pc = "probe4", !.cfg = networkConfig, !.fate = fate,
                   !.open = {Socket("probe", "0.0.0.0")}]

\* A direct call of bindToOptimalNetwork.
BindCall ==
  \E cfg \in NetworkConfigInputs, fate \in ProbeFateInputs :
     /\ bind.pc = "idle"
     /\ bind' = bindToOptimalNetwork(cfg, fate)
     /\ UNCHANGED <<config, policy, nUpdates, conn, call, life, sup, corsConfig>>

\* detectNetworkStack returned stackInfo: the strategy and the first bind attempt.
stackDetected(b, stackInfo, nextFate) ==
  attemptBinding([b EXCEPT !.stack = stackInfo],
                 determineBindingStrategy(b.cfg, stackInfo), nextFate)

\* A variant whose timer resolves the probe without closing the test server.
probeResolvedTimerLeavesOpen(b, available, nextFate) ==
  IF b.pc = "probe4"
  THEN [b EXCEPT !.pc = "probe6", !.stack.ipv4Available = available, !.fate = nextFate,
                 !.probes = Append(b.probes, b.fate),
                 !.open = (IF b.fate = "silent" THEN b.open
                           ELSE b.open \ {Socket("probe", "0.0.0.0")})
                            \cup {Socket("probe", "::")}]
  ELSE stackDetected([b EXCEPT !.probes = Append(b.probes, b.fate),
                               !.open = IF b.fate = "silent" THEN b.open
                                        ELSE b.open \ {Socket("probe", "::")}],
                     [ipv4Available  |-> b.stack.ipv4Available,
                      ipv6Available  |-> available,
                      preferredStack |-> preferredStack(b.stack.ipv4Available, available)],
                     nextFate)

\* A probe resolved with available; the code goes on to the IPv6 probe, or to
\* the strategy and the first bind attempt.  The test server is closed by then:
\* by the listen callback, by the timer, or by listen()'s own failure.
probeResolved(b, available, nextFate) ==
  IF b.pc = "probe4"
  THEN [b EXCEPT !.pc = "probe6", !.stack.ipv4Available = available, !.fate = nextFate,
                 !.probes = Append(b.probes, b.fate),
                 !.open = (b.open \ {Socket("probe", "0.0.0.0")}) \cup {Socket("probe", "::")}]
  ELSE stackDetected([b EXCEPT !.probes = Append(b.probes, b.fate),
                               !.open = b.open \ {Socket("probe", "::")}],
                     [ipv4Available  |-> b.stack.ipv4Available,
                      ipv6Available  |-> available,
                      preferredStack |-> preferredStack(b.stack.ipv4Available, available)],
                     nextFate)

\* testNetworkBinding: the test server reports 'listening' and is closed.
ProbeListening ==
  \E nextFate \in (IF bind.pc = "probe4" THEN ProbeFateInputs ELSE FateInputs) :
     /\ bind.pc \in {"probe4", "probe6"}
     /\ bind.fate = "listening"
     /\ bind' = probeResolved(bind, TRUE, nextFate)
     /\ UNCHANGED <<config, policy, nUpdates, conn, call, life, sup, corsConfig>>

\* testNetworkBinding: the test server reports 'error'.  A listen() that throws
\* is not caught by testNetworkBinding's executor; port 0 on a wildcard address
\* does not make listen() throw, so the probes meet no such fate.
ProbeError ==
  \E nextFate \in (IF bind.pc = "probe4" THEN ProbeFateInputs ELSE FateInputs) :
     /\ bind.pc \in {"probe4", "probe6"}
     /\ bind.fate = "error"
     /\ bind' = probeResolved(bind, FALSE, nextFate)
     /\ UNCHANGED <<config, policy, nUpdates, conn, call, life, sup, corsConfig>>

\* testNetworkBinding: the 1-second timer fires before any event; the test
\* server is closed and the probe resolves false.
ProbeTimeout ==
  \E nextFate \in (IF bind.pc = "probe4" THEN ProbeFateInputs ELSE FateInputs) :
     /\ bind.pc \in {"probe4", "probe6"}
     /\ bind.fate = "silent"
     /\ bind' = probeResolved(bind, FALSE, nextFate)
     /\ UNCHANGED <<config, policy, nUpdates, conn, call, life, sup, corsConfig>>

\* The callback tryBind passes to listen() for the IPv6 wildcard: it runs after
\* onListening, and what setIPv6Only does is caught there.
listenCallback(b, outcome) ==
  IF b.result.success /\ b.result.family = "IPv6" /\ b.result.address = "::"
  THEN [b EXCEPT !.relaxed = outcome]
  ELSE b

\* logNetworkConfiguration: the network mode it logs is dual-stack.
dualStackEnabled(result) == result.family = "IPv6" /\ result.address = "::"

\* getHealthStatus: the dualStack flag of checks.server.
serverDualStack(result) == result.family = "IPv6" /\ result.address = "::"

\* tryBind: the server reports 'listening'.
BindListening ==
  \E nextFate \in FateInputs, relax \in RelaxInputs :
     /\ bind.pc = "attempt"
     /\ bind.fate = "listening"
     /\ bind' = listenCallback(tryBindResolved(bind, TRUE, "none", nextFate), relax)
     /\ UNCHANGED <<config, policy, nUpdates, conn, call, life, sup, corsConfig>>

\* tryBind: the server reports 'error'.
BindError ==
  \E error \in ErrorInputs, nextFate \in FateInputs :
     /\ bind.pc = "attempt"
     /\ bind.fate = "error"
     /\ bind' = tryBindResolved(bind, FALSE, error, nextFate)
     /\ UNCHANGED <<config, policy, nUpdates, conn, call, life, sup, corsConfig>>

\* tryBind: server.listen throws and the catch calls onError.
BindListenThrows ==
  \E nextFate \in FateInputs :
     /\ bind.pc = "attempt"
     /\ bind.fate = "throw"
     /\ bind' = tryBindResolved(bind, FALSE, "ERR_SOCKET_BAD_PORT", nextFate)
     /\ UNCHANGED <<config, policy, nUpdates, conn, call, life, sup, corsConfig>>

(***************************************************************************)
(* HttpServerTransport lifecycle: start() and stop().                      *)
(*                                                                         *)
(* httpServer is "null" until the first successful start, then the state   *)
(* of the server object the field refers to: "listening", "closing" (close *)
(* was called, open connections remain) or "closed".  start and stop are   *)
(* the positions of the caller's start() and stop() calls; a caller awaits *)
(* a call before it makes the next call of the same kind; other is the     *)
(* position of a start() call of a second caller, who does not wait for    *)
(* the first.  listeners is the set of addresses on which a server created *)
(* by this transport's start() calls is listening.  v6only tells whether   *)
(* the host binds "::" for IPv6 alone (as with net.ipv6.bindv6only=1), so  *)
(* that an IPv4 wildcard can be bound on the same port beside it.          *)
(***************************************************************************)
NewTransport ==
  [isRunning |-> FALSE, httpServer |-> "null", bindResult |-> NoResult,
   start |-> "idle", stop |-> "idle", error |-> "none", binds |-> 0,
   other |-> "idle", listeners |-> {}, v6only |-> FALSE]

\* The transport after a start() whose bind succeeded on the IPv6 wildcard.
RunningTransport ==
  [NewTransport EXCEPT !.isRunning = TRUE, !.httpServer = "listening",
                       !.bindResult = bindResult(Candidate("::", "IPv6"), TRUE, "none"),
                       !.start = "resolved", !.binds = 1, !.listeners = {"::"}]

\* A variant that starts again over the running listener.
startAgain(t) == [t EXCEPT !.start = "detect", !.error = "none", !.binds = 0]

\* start() up to its first await (detectNetworkStack).
start(t) ==
  IF t.isRunning
  THEN [t EXCEPT !.start = "rejected", !.error = "HTTP transport is already running"]
  ELSE [t EXCEPT !.start = "detect", !.error = "none", !.binds = 0]

Start ==
  /\ life.start \in {"idle", "resolved", "rejected"}
  /\ life' = start(life)
  /\ bind' = IF life.isRunning THEN bind ELSE IdleBind
  /\ UNCHANGED <<config, policy, nUpdates, conn, call, sup, corsConfig>>

\* start(): detectNetworkStack resolved (its probes resolve on 'listening', on
\* 'error' or after one second); bindToOptimalNetwork is called with
\* createNetworkConfig(this.config), whose flags come from the environment.
StartDetected ==
  \E cfg \in NetworkConfigInputs, fate \in ProbeFateInputs :
     /\ life.start = "detect"
     /\ life' = [life EXCEPT !.start = "bind", !.binds = life.binds + 1]
     /\ bind' = bindToOptimalNetwork(cfg, fate)
     /\ UNCHANGED <<config, policy, nUpdates, conn, call, sup, corsConfig>>

\* A variant that records a failed bind as if it had succeeded.
startResumedIgnoresFailure(t, result) ==
  [t EXCEPT !.httpServer = "listening", !.isRunning = TRUE,
            !.bindResult = result, !.start = "resolved"]

\* start() after bindToOptimalNetwork returned result: throw the enhanced error
\* (the catch logs and rethrows), or record the server and the result.
startResumed(t, result) ==
  IF ~result.success
  THEN [t EXCEPT !.start = "rejected", !.error = result.error]
  ELSE [t EXCEPT !.httpServer = "listening", !.isRunning = TRUE,
                 !.bindResult = result, !.start = "resolved",
                 !.listeners = t.listeners \cup {result.address}]

StartBound ==
  /\ life.start = "bind"
  /\ bind.pc = "returned"
  /\ life' = startResumed(life, bind.result)
  /\ UNCHANGED <<config, policy, nUpdates, conn, call, bind, sup, corsConfig>>

\* A variant that waits for the listener's close although the transport is not
\* running.
stopAlwaysCloses(t) == [t EXCEPT !.stop = "closing"]

\* stop() up to its return or to httpServer.close(callback).
stop(t) ==
  IF ~t.isRunning \/ t.httpServer = "null"
  THEN [t EXCEPT !.stop = "resolved"]
  ELSE [t EXCEPT !.stop = "closing", !.httpServer = "closing",
                 !.listeners = t.listeners \ {t.bindResult.address}]

Stop ==
  /\ life.stop \in {"idle", "resolved"}
  /\ life' = stop(life)
  /\ UNCHANGED <<config, policy, nUpdates, conn, call, bind, sup, corsConfig>>

\* The callback of httpServer.close: the listener has stopped listening and
\* its last connection has ended.
StopClosed ==
  /\ life.stop = "closing"
  /\ \A c \in Conns : conn[c].st = "idle"
  /\ life' = [life EXCEPT !.isRunning = FALSE, !.httpServer = "closed", !.stop = "resolved"]
  /\ UNCHANGED <<config, policy, nUpdates, conn, call, bind, sup, corsConfig>>

(***************************************************************************)
(* Two callers of start() on one transport.                                *)
(***************************************************************************)
StrategyInputs == {"ipv6-dual", "ipv6-only", "ipv4-only"}

\* Whether the host refuses to bind address on the transport's port while
\* held is listening on it: the same address, two IPv4 addresses of which one
\* is the wildcard, and "::" beside an IPv4 address unless "::" is IPv6 only.
addressInUse(address, held, v6only) ==
  \/ address = held
  \/ address # "::" /\ held # "::"
  \/ (address = "::" \/ held = "::") /\ ~v6only

freeCandidates(plan, listeners, v6only) ==
  { i \in 1..Len(plan) :
      \A held \in listeners : ~addressInUse(plan[i].address, held, v6only) }

\* What attemptBinding returns for a strategy when the only reason for a
\* listen() to fail is an address in use: the first candidate that is free,
\* or the failure of the last candidate.
attemptBindingResult(strategy, listeners, v6only) ==
  IF freeCandidates(candidates(strategy), listeners, v6only) = {}
  THEN bindResult(candidates(strategy)[Len(candidates(strategy))], FALSE, "EADDRINUSE")
  ELSE bindResult(
         candidates(strategy)[CHOOSE i \in freeCandidates(candidates(strategy), listeners, v6only) :
            \A j \in freeCandidates(candidates(strategy), listeners, v6only) : i <= j],
         TRUE, "none")

\* The second caller's start() up to its first await.
startOther(t) ==
  IF t.isRunning
  THEN [t EXCEPT !.other = "rejected", !.error = "HTTP transport is already running"]
  ELSE [t EXCEPT !.other = "detect", !.error = "none"]

OtherStart ==
  /\ life.other \in {"idle", "resolved", "rejected"}
  /\ life' = startOther(life)
  /\ UNCHANGED <<config, policy, nUpdates, conn, call, bind, sup, corsConfig>>

\* The first caller's start() resumes with the result of its bind cascade.
StartSettled ==
  \E strategy \in StrategyInputs :
     /\ life.start = "detect"
     /\ life' = startResumed(life, attemptBindingResult(strategy, life.listeners, life.v6only))
     /\ UNCHANGED <<config, policy, nUpdates, conn, call, bind, sup, corsConfig>>

\* The second caller's start() resumes: the same statements, the outcome is
\* the second call's.
startResumedOther(t, result) ==
  [startResumed(t, result) EXCEPT !.start = t.start,
                                  !.other = startResumed(t, result).start]

OtherStartSettled ==
  \E strategy \in StrategyInputs :
     /\ life.other = "detect"
     /\ life' = startResumedOther(life, attemptBindingResult(strategy, life.listeners, life.v6only))
     /\ UNCHANGED <<config, policy, nUpdates, conn, call, bind, sup, corsConfig>>
(***************************************************************************)
(* ServerState: the supervisor of the transports (server-state.js).        *)
(*                                                                         *)
(* stdio and http say whether transports.stdio and transports.http are     *)
(* set; the HttpServerTransport that transports.http refers to is life.    *)
(* orphans counts the listeners still listening whose transport the        *)
(* supervisor no longer refers to.  init and shut are the positions of the *)
(* caller's initialize() and shutdown() calls, made one after the other.   *)
(* shutSince, installs, signalled, shutdownCalls and exited are the        *)
(* history of the process: whether a shutdown() completed after the last   *)
(* initialize() was called, the number of setupGracefulShutdown() calls,   *)
(* whether a signal was delivered, the number of shutdown() calls its      *)
(* listeners made, and whether process.exit ran.                           *)
(***************************************************************************)
ModeInputs == {"stdio", "http", "dual", "both"}

MaxInstalls == 2

NewServerState ==
  [mode |-> "dual", stdio |-> FALSE, http |-> FALSE, isHealthy |-> FALSE,
   orphans |-> 0, init |-> "idle", shut |-> "idle", shutSince |-> FALSE,
   installs |-> 0, signalled |-> FALSE, shutdownCalls |-> 0, exited |-> FALSE]

\* ServerState.getStatus: healthy and the two transports fields.
getStatus(s, t) ==
  [healthy |-> s.isHealthy, stdio |-> s.stdio, http |-> s.http /\ t.isRunning]

\* initializeStdioTransport up to the await of mcpServer.connect.
initializeStdioTransport(s) == [s EXCEPT !.stdio = TRUE, !.init = "stdio"]

\* initializeHttpTransport up to the await of start(): transports.http is
\* replaced by a new transport; t is the transport it referred to, whose
\* listener, if it has one, keeps listening.
initializeHttpTransport(s, t) ==
  [s EXCEPT !.http = TRUE, !.init = "http",
            !.orphans = IF s.http /\ t.httpServer = "listening" THEN s.orphans + 1
                        ELSE s.orphans]

\* initialize() up to its first await, or to the throw of the default case.
initialize(s, t) ==
  IF s.mode \in {"stdio", "dual"} THEN initializeStdioTransport(s)
  ELSE IF s.mode = "http" THEN initializeHttpTransport(s, t)
  ELSE [s EXCEPT !.init = "rejected"]

Initialize ==
  /\ ~sup.signalled
  /\ sup.init \in {"idle", "resolved", "rejected"}
  /\ sup.shut \in {"idle", "resolved"}
  /\ sup' = [initialize(sup, life) EXCEPT !.shutSince = FALSE]
  /\ life' = IF sup.mode = "http" THEN start(NewTransport) ELSE life
  /\ UNCHANGED <<config, policy, nUpdates, conn, call, bind, corsConfig>>

\* initialize() after its last await: isHealthy is set when nothing threw;
\* the catch logs and rethrows.
initializeResumed(s, ok) ==
  IF ok THEN [s EXCEPT !.isHealthy = TRUE, !.init = "resolved"]
  ELSE [s EXCEPT !.init = "rejected"]

\* mcpServer.connect settled: initialize() goes on with the HTTP transport in
\* dual mode, and is over otherwise.
stdioConnectSettled(s, t, ok) ==
  IF ok /\ s.mode = "dual" THEN initializeHttpTransport(s, t)
  ELSE initializeResumed(s, ok)

StdioConnectSettled ==
  \E ok \in BOOLEAN :
     /\ ~sup.exited
     /\ sup.init = "stdio"
     /\ sup' = stdioConnectSettled(sup, life, ok)
     /\ life' = IF ok /\ sup.mode = "dual" THEN start(NewTransport) ELSE life
     /\ UNCHANGED <<config, policy, nUpdates, conn, call, bind, corsConfig>>

\* What bindToOptimalNetwork returns to start(): a listener on the wildcard
\* address, or the error of the last attempt.
StartResultInputs ==
  { bindResult(Candidate("::", "IPv6"), TRUE, "none"),
    bindResult(Candidate("0.0.0.0", "IPv4"), FALSE, "EADDRINUSE") }

\* The start() of transports.http settles and initialize() resumes.  The
\* configured port is taken while a listener of this process holds it.
HttpStartSettled ==
  \E result \in StartResultInputs :
     /\ ~sup.exited
     /\ sup.init = "http"
     /\ life.start = "detect"
     /\ sup.orphans > 0 => ~result.success
     /\ life' = startResumed(life, result)
     /\ sup' = initializeResumed(sup, result.success)
     /\ UNCHANGED <<config, policy, nUpdates, conn, call, bind, corsConfig>>

\* shutdown() after its await, or without one: isHealthy is cleared.
shutdownResumed(s) ==
  [s EXCEPT !.isHealthy = FALSE, !.shut = "resolved", !.shutSince = TRUE]

\* shutdown(): t is transports.http after its stop() was called.
shutdown(s, t) ==
  IF s.http /\ t.stop = "closing" THEN [s EXCEPT !.shut = "stopping"]
  ELSE shutdownResumed(s)

Shutdown ==
  /\ ~sup.signalled
  /\ sup.init \in {"idle", "resolved", "rejected"}
  /\ sup.shut \in {"idle", "resolved"}
  /\ life' = IF sup.http THEN stop(life) ELSE life
  /\ sup' = shutdown(sup, IF sup.http THEN stop(life) ELSE life)
  /\ UNCHANGED <<config, policy, nUpdates, conn, call, bind, corsConfig>>

\* The stop() awaited by shutdown() resolved.
ShutdownResumed ==
  /\ ~sup.exited
  /\ sup.shut = "stopping"
  /\ life.stop = "resolved"
  /\ sup' = shutdownResumed(sup)
  /\ UNCHANGED <<config, policy, nUpdates, conn, call, bind, life, corsConfig>>

\* setupGracefulShutdown: one more listener on SIGINT and one more on SIGTERM.
setupGracefulShutdown(s) == [s EXCEPT !.installs = s.installs + 1]

SetupGracefulShutdown ==
  /\ ~sup.signalled
  /\ sup.installs < MaxInstalls
  /\ sup' = setupGracefulShutdown(sup)
  /\ UNCHANGED <<config, policy, nUpdates, conn, call, bind, life, corsConfig>>

\* SIGINT or SIGTERM is delivered: process emits the event and every listener
\* installed for it calls shutdown() before any of them resumes.
signalDelivered(s, t) ==
  [(IF s.shut = "stopping" THEN s ELSE shutdown(s, t))
     EXCEPT !.signalled = TRUE, !.shutdownCalls = s.installs]

Signal ==
  /\ ~sup.signalled
  /\ sup.installs > 0
  /\ life' = IF sup.http THEN stop(life) ELSE life
  /\ sup' = signalDelivered(sup, IF sup.http THEN stop(life) ELSE life)
  /\ UNCHANGED <<config, policy, nUpdates, conn, call, bind, corsConfig>>

\* The first listener resumes after its shutdown() and calls process.exit(0).
Exit ==
  /\ sup.signalled
  /\ ~sup.exited
  /\ sup.shut = "resolved"
  /\ sup' = [sup EXCEPT !.exited = TRUE]
  /\ UNCHANGED <<config, policy, nUpdates, conn, call, bind, life, corsConfig>>


(***************************************************************************)
(* Configuration from the environment (config.ts).  An environment        *)
(* variable is a record: set tells whether process.env has it, value is   *)
(* its text.                                                               *)
(***************************************************************************)
Undefined == [set |-> FALSE, value |-> <<>>]
EnvText(chars) == [set |-> TRUE, value |-> chars]

\* if (process.env.X): the variable is set and not the empty string.
truthyEnv(v) == v.set /\ v.value # <<>>

ModeEnvInputs ==
  { Undefined, EnvText(<<>>), EnvText(<<"s","t","d","i","o">>),
    EnvText(<<"h","t","t","p">>), EnvText(<<"d","u","a","l">>),
    EnvText(<<"H","T","T","P">>), EnvText(<<"b","o","t","h">>) }
PortEnvInputs ==
  { Undefined, EnvText(<<>>), EnvText(<<"0">>), EnvText(<<"1">>),
    EnvText(<<"3","0","0","0">>), EnvText(<<"6","5","5","3","5">>),
    EnvText(<<"6","5","5","3","6">>), EnvText(<<"-","1">>),
    EnvText(<<"a","b","c">>), EnvText(<<" ","8","0">>), EnvText(<<"8","0","8","0","x">>) }
RailwayEnvInputs == { Undefined, EnvText(<<"p","r","o","d">>) }
NodeEnvInputs == { Undefined, EnvText(<<"t","e","s","t">>) }

\* The environments of one call: the four variables the mode and the port
\* depend on; every other variable is unset.
EnvInputs ==
  [ MCP_SERVER_MODE : ModeEnvInputs, PORT : PortEnvInputs,
    RAILWAY_ENVIRONMENT : RailwayEnvInputs, NODE_ENV : NodeEnvInputs ]

ValidModes == { <<"s","t","d","i","o">>, <<"h","t","t","p">>, <<"d","u","a","l">> }

RECURSIVE trimStart(_)
trimStart(s) == IF s # <<>> /\ Head(s) = " " THEN trimStart(Tail(s)) ELSE s

RECURSIVE digitPrefix(_)
digitPrefix(s) ==
  IF s = <<>> \/ Head(s) \notin Digit THEN <<>>
  ELSE <<Head(s)>> \o digitPrefix(Tail(s))

\* parseInt(text, 10): leading white space, an optional sign, then the longest
\* run of digits; NaN when there is no digit.
parseInt(text) ==
  IF digitPrefix(IF trimStart(text) # <<>> /\ Head(trimStart(text)) \in {"-", "+"}
                 THEN Tail(trimStart(text)) ELSE trimStart(text)) = <<>>
  THEN [nan |-> TRUE, value |-> 0]
  ELSE IF Head(trimStart(text)) = "-"
  THEN [nan |-> FALSE, value |-> 0 - decimalValue(digitPrefix(Tail(trimStart(text))))]
  ELSE IF Head(trimStart(text)) = "+"
  THEN [nan |-> FALSE, value |-> decimalValue(digitPrefix(Tail(trimStart(text))))]
  ELSE [nan |-> FALSE, value |-> decimalValue(digitPrefix(trimStart(text)))]

DefaultPort == [nan |-> FALSE, value |-> 3000]

detectEnvironment(env) ==
  IF truthyEnv(env.RAILWAY_ENVIRONMENT) THEN "railway"
  ELSE IF truthyEnv(env.PORT) /\ ~truthyEnv(env.NODE_ENV) THEN "railway"
  ELSE "local"

\* A port outside 1..65535, as both validations test it.
portOutOfRange(port) == port.value < 1 \/ port.value > 65535

\* The errors validateEnvironmentVariables collects.
validateEnvironmentVariables(env) ==
  (IF detectEnvironment(env) = "railway" /\ ~truthyEnv(env.PORT)
   THEN {"PORT required"} ELSE {})
  \cup
  (IF detectEnvironment(env) = "railway" /\ truthyEnv(env.PORT)
      /\ (parseInt(env.PORT.value).nan \/ portOutOfRange(parseInt(env.PORT.value)))
   THEN {"Invalid PORT value"} ELSE {})
  \cup
  (IF truthyEnv(env.MCP_SERVER_MODE) /\ env.MCP_SERVER_MODE.value \notin ValidModes
   THEN {"Invalid MCP_SERVER_MODE"} ELSE {})

parseServerConfig(env) ==
  [ mode |-> IF truthyEnv(env.MCP_SERVER_MODE) THEN env.MCP_SERVER_MODE.value
             ELSE IF detectEnvironment(env) = "railway" THEN <<"h","t","t","p">>
             ELSE <<"s","t","d","i","o">>,
    port |-> IF truthyEnv(env.PORT) THEN parseInt(env.PORT.value) ELSE DefaultPort,
    host |-> IF detectEnvironment(env) = "railway" THEN "0.0.0.0" ELSE "localhost" ]

\* validateServerConfig: "ok", or the error it throws.  !config.port is true
\* of NaN and of 0.
validateServerConfig(cfg) ==
  IF cfg.mode \notin ValidModes THEN "Invalid server mode"
  ELSE IF cfg.mode # <<"s","t","d","i","o">>
          /\ (cfg.port.nan \/ cfg.port.value = 0 \/ portOutOfRange(cfg.port))
  THEN "Invalid port"
  ELSE "ok"

parseAndValidateServerConfig(env) ==
  IF validateEnvironmentVariables(env) # {}
  THEN [threw |-> TRUE, error |-> "Configuration validation failed",
        config |-> parseServerConfig(env)]
  ELSE [threw |-> validateServerConfig(parseServerConfig(env)) # "ok",
        error |-> validateServerConfig(parseServerConfig(env)),
        config |-> parseServerConfig(env)]

CallParseAndValidateServerConfig(env) ==
  /\ call.op = "none"
  /\ call' = [op |-> "parseAndValidateServerConfig", env |-> env,
              outcome |-> parseAndValidateServerConfig(env)]
  /\ UNCHANGED <<config, policy, nUpdates, conn, bind, life, sup, corsConfig>>

(***************************************************************************)
(* The whole CORSConfig of a middleware, and its updates.                  *)
(***************************************************************************)
CORSFieldNames == {"methods", "allowedHeaders", "credentials", "maxAge"}

\* The object spread {...a, ...b}: every key of either, b's value where b has
\* the key.
spread(a, b) ==
  [k \in DOMAIN a \cup DOMAIN b |-> IF k \in DOMAIN b THEN b[k] ELSE a[k]]

\* this.config of a middleware whose origins are origins and whose other
\* fields are fields; getConfig returns a copy of it.
getConfig(origins, fields) == [origins |-> origins] @@ fields

\* The fields of a CORSConfig other than origins.
fieldsOf(cfg) == [k \in CORSFieldNames |-> cfg[k]]

\* A variant that starts again from the defaults.
updateConfigFromDefaults(cfg, newConfig) ==
  spread(getConfig(DEFAULT_CORS_CONFIG_origins, DefaultCORSFields), newConfig)

\* CORSMiddleware.updateConfig(newConfig) on this.config = cfg.
updateConfigFields(cfg, newConfig) == spread(cfg, newConfig)

\* HttpServerTransport.updateCORSConfig(newOrigins) for any argument: isArray
\* and truthy are Array.isArray(newOrigins) and the argument's truthiness.
updateCORSConfig(cfg, newOrigins) ==
  IF newOrigins.truthy /\ newOrigins.isArray
  THEN updateConfigFields(cfg, [origins |-> newOrigins.value])
  ELSE cfg

\* Partial<CORSConfig> values: every subset of the fields of one full record.
restrictTo(full, keys) == [k \in keys |-> full[k]]
FullConfigInputs ==
  [ origins : { <<PAT_trusted>>, <<>> },
    methods : { <<"GET", "POST", "PUT">> },
    allowedHeaders : { <<"Content-Type">> },
    credentials : { TRUE },
    maxAge : { 600 } ]
PartialConfigInputs ==
  { restrictTo(full, keys) : full \in FullConfigInputs,
                             keys \in SUBSET (CORSFieldNames \cup {"origins"}) }

\* Arguments of updateCORSConfig: arrays of patterns, undefined, and a single
\* origin passed as a string.
OriginsArgumentInputs ==
  { [isArray |-> TRUE, truthy |-> TRUE, value |-> origins] :
        origins \in UpdateOriginInputs }
  \cup { [isArray |-> FALSE, truthy |-> FALSE, value |-> <<>>],
         [isArray |-> FALSE, truthy |-> TRUE, value |-> PAT_trusted] }

CallUpdateConfigFields(newConfig) ==
  /\ nUpdates < MaxUpdates
  /\ policy' = updateConfigFields(getConfig(policy, corsConfig), newConfig).origins
  /\ corsConfig' = fieldsOf(updateConfigFields(getConfig(policy, corsConfig), newConfig))
  /\ nUpdates' = nUpdates + 1
  /\ call' = [op |-> "updateConfig", before |-> getConfig(policy, corsConfig),
              newConfig |-> newConfig]
  /\ UNCHANGED <<config, conn, bind, life, sup>>

CallUpdateCORSConfig(newOrigins) ==
  /\ nUpdates < MaxUpdates
  /\ policy' = updateCORSConfig(getConfig(policy, corsConfig), newOrigins).origins
  /\ corsConfig' = fieldsOf(updateCORSConfig(getConfig(policy, corsConfig), newOrigins))
  /\ nUpdates' = nUpdates + 1
  /\ call' = [op |-> "updateCORSConfig", before |-> getConfig(policy, corsConfig),
              newOrigins |-> newOrigins]
  /\ UNCHANGED <<config, conn, bind, life, sup>>

(***************************************************************************)
(* Specifications.                                                         *)
(***************************************************************************)
\* Spec: a running HttpServerTransport, constructed from a ServerConfig, serving
\* requests while updateCORSConfig may be called.
Init ==
  /\ config \in ConfigInputs
  /\ policy = constructorPolicy(config)
  /\ nUpdates = 0
  /\ conn = [c \in Conns |-> IdleConn]
  /\ call = NoCall
  /\ bind = IdleBind
  /\ life = RunningTransport
  /\ sup = NewServerState
  /\ corsConfig = DefaultCORSFields

Next ==
  \/ \E c \in Conns : Arrive(c)
  \/ \E c \in Conns : BodyEnd(c)
  \/ \E c \in Conns : BodyError(c)
  \/ \E c \in Conns, ok \in BOOLEAN : CoreReply(c, ok)
  \/ \E c \in Conns : HealthDone(c)
  \/ \E c \in Conns : Close(c)
  \/ \E newOrigins \in UpdateOriginInputs : UpdateCORSConfig(newOrigins)

Spec == Init /\ [][Next]_vars

\* SpecCors: a CORSMiddleware on its own, built by new CORSMiddleware() or by
\* createCORSMiddleware(envOrigins), with its methods called directly.
DefaultConfig == [corsOrigins |-> <<>>, allowPrivateNetworkAccess |-> FALSE,
                  railwayInternalAccess |-> FALSE]

InitCors ==
  /\ config = DefaultConfig
  /\ policy \in {newCORSMiddleware(FALSE, <<>>)}
                  \cup {createCORSMiddleware(e) : e \in ConfiguredOriginInputs}
  /\ nUpdates = 0
  /\ conn = [c \in Conns |-> IdleConn]
  /\ call = NoCall
  /\ bind = IdleBind
  /\ life = NewTransport
  /\ sup = NewServerState
  /\ corsConfig = DefaultCORSFields

NextCors ==
  \/ \E present \in BOOLEAN, origin \in OriginInputs :
        (~present => origin = O_empty) /\ CallValidateOrigin(present, origin)
  \/ \E origin \in OriginInputs : CallIsPrivateNetworkOrigin(origin)
  \/ \E newOrigins \in PolicyInputs : CallUpdateConfig(newOrigins)

SpecCors == InitCors /\ [][NextCors]_vars

\* SpecBind: one bindToOptimalNetwork call.
InitBind ==
  /\ config = DefaultConfig
  /\ policy = constructorPolicy(DefaultConfig)
  /\ nUpdates = 0
  /\ conn = [c \in Conns |-> IdleConn]
  /\ call = NoCall
  /\ bind = IdleBind
  /\ life = NewTransport
  /\ sup = NewServerState
  /\ corsConfig = DefaultCORSFields

NextBind ==
  \/ BindCall
  \/ ProbeListening
  \/ ProbeError
  \/ ProbeTimeout
  \/ BindListening
  \/ BindError
  \/ BindListenThrows

SpecBind == InitBind /\ [][NextBind]_vars

\* SpecLife: a transport from its construction on, with start() and stop()
\* called in any order while requests are served.
LifeRequestInputs ==
  { [method |-> "POST", url |-> U_mcp, host |-> H_ok],
    [method |-> "GET", url |-> U_health, host |-> H_ok],
    [method |-> "GET", url |-> U_other, host |-> H_empty] }

LifeArrive(c) ==
  \E q \in LifeRequestInputs : ArriveWith(c, q.method, q.url, q.host, FALSE, O_empty)

InitLife ==
  /\ config = DefaultConfig
  /\ policy = constructorPolicy(DefaultConfig)
  /\ nUpdates = 0
  /\ conn = [c \in Conns |-> IdleConn]
  /\ call = NoCall
  /\ bind = IdleBind
  /\ life = NewTransport
  /\ sup = NewServerState
  /\ corsConfig = DefaultCORSFields

NextLife ==
  \/ Start
  \/ StartDetected
  \/ StartBound
  \/ Stop
  \/ StopClosed
  \/ ProbeListening
  \/ ProbeError
  \/ ProbeTimeout
  \/ BindListening
  \/ BindError
  \/ BindListenThrows
  \/ \E c \in Conns : LifeArrive(c)
  \/ \E c \in Conns : BodyEnd(c)
  \/ \E c \in Conns : BodyError(c)
  \/ \E c \in Conns, ok \in BOOLEAN : CoreReply(c, ok)
  \/ \E c \in Conns : HealthDone(c)
  \/ \E c \in Conns : Close(c)

SpecLife == InitLife /\ [][NextLife]_vars

\* SpecLifeFair: the event loop runs the close callback once it is due, and
\* every request in flight comes to its end: the body arrives or fails, the
\* core's promise settles, the health checks resolve, the client leaves.
SpecLifeFair ==
  /\ SpecLife
  /\ WF_vars(StopClosed)
  /\ \A c \in Conns : WF_vars(BodyEnd(c) \/ BodyError(c))
  /\ \A c \in Conns : WF_vars(\E ok \in BOOLEAN : CoreReply(c, ok))
  /\ \A c \in Conns : WF_vars(HealthDone(c))
  /\ \A c \in Conns : WF_vars(Close(c))

\* SpecSup: a ServerState from its construction on, in each mode, with
\* initialize() and shutdown() called one after the other in any order,
\* setupGracefulShutdown() called any number of times and a signal delivered
\* at any moment.
InitSup ==
  /\ config = DefaultConfig
  /\ policy = constructorPolicy(DefaultConfig)
  /\ nUpdates = 0
  /\ conn = [c \in Conns |-> IdleConn]
  /\ call = NoCall
  /\ bind = IdleBind
  /\ life = NewTransport
  /\ sup \in { [NewServerState EXCEPT !.mode = mode] : mode \in ModeInputs }
  /\ corsConfig = DefaultCORSFields

NextSup ==
  \/ Initialize
  \/ StdioConnectSettled
  \/ HttpStartSettled
  \/ Shutdown
  \/ StopClosed
  \/ ShutdownResumed
  \/ SetupGracefulShutdown
  \/ Signal
  \/ Exit

SpecSup == InitSup /\ [][NextSup]_vars

\* SpecQuad: one isPrivateNetworkOrigin call, on an origin whose host is a dotted
\* quad, written as the tests write them: decimal octets without leading
\* zeros, the form url.hostname has for every IPv4 host.
FirstOctetInputs == {0, 9, 10, 11, 127, 171, 172, 173, 191, 192, 193, 255}
SecondOctetInputs == {0, 15, 16, 17, 31, 32, 167, 168, 169, 255}
ThirdOctetInputs == {0, 255}
FourthOctetInputs == {0, 1, 255}
PortSuffixInputs == { <<>>, <<":","3","0","0","0">> }

\* The decimal literal of n, as a template literal or String(n) writes it.
RECURSIVE decimalString(_)
decimalString(n) ==
  IF n < 10 THEN << CHOOSE ch \in Digit : DigitVal[ch] = n >>
  ELSE decimalString(n \div 10) \o << CHOOSE ch \in Digit : DigitVal[ch] = n % 10 >>

dottedQuad(a, b, c, d) ==
  decimalString(a) \o <<".">> \o decimalString(b) \o <<".">> \o
  decimalString(c) \o <<".">> \o decimalString(d)

quadOrigin(a, b, c, d, suffix) ==
  <<"h","t","t","p",":","/","/">> \o dottedQuad(a, b, c, d) \o suffix

InitQuad ==
  /\ config = DefaultConfig
  /\ policy = newCORSMiddleware(FALSE, <<>>)
  /\ nUpdates = 0
  /\ conn = [c \in Conns |-> IdleConn]
  /\ call = NoCall
  /\ bind = IdleBind
  /\ life = NewTransport
  /\ sup = NewServerState
  /\ corsConfig = DefaultCORSFields

NextQuad ==
  \E a \in FirstOctetInputs, b \in SecondOctetInputs, c \in ThirdOctetInputs,
     d \in FourthOctetInputs, suffix \in PortSuffixInputs :
     call.op = "none" /\ CallIsPrivateNetworkOrigin(quadOrigin(a, b, c, d, suffix))

SpecQuad == InitQuad /\ [][NextQuad]_vars

\* SpecConc: a running transport with two connections open at once, "stalled"
\* and "other", each carrying health checks and RPC requests.
ConcurrentConns == {"stalled", "other"}

ConcRequestInputs ==
  { [method |-> "POST", url |-> U_mcp, host |-> H_ok],
    [method |-> "GET", url |-> U_health, host |-> H_ok] }

ConcArrive(c) ==
  \E q \in ConcRequestInputs : ArriveWith(c, q.method, q.url, q.host, FALSE, O_empty)

InitConc ==
  /\ config = DefaultConfig
  /\ policy = constructorPolicy(DefaultConfig)
  /\ nUpdates = 0
  /\ conn = [c \in ConcurrentConns |-> IdleConn]
  /\ call = NoCall
  /\ bind = IdleBind
  /\ life = RunningTransport
  /\ sup = NewServerState
  /\ corsConfig = DefaultCORSFields

NextConc ==
  \/ \E c \in ConcurrentConns : ConcArrive(c)
  \/ \E c \in ConcurrentConns : BodyEnd(c)
  \/ \E c \in ConcurrentConns : BodyError(c)
  \/ \E c \in ConcurrentConns, ok \in BOOLEAN : CoreReply(c, ok)
  \/ \E c \in ConcurrentConns : HealthDone(c)
  \/ \E c \in ConcurrentConns : Close(c)

SpecConc == InitConc /\ [][NextConc]_vars

\* SpecConcFair: the requests of connection "other" come to their end: the
\* body arrives or fails, the core's promise settles, the health checks
\* resolve.  Nothing is assumed of connection "stalled": its body may never
\* arrive and its core call may never settle.
SpecConcFair ==
  /\ SpecConc
  /\ WF_vars(BodyEnd("other") \/ BodyError("other"))
  /\ WF_vars(\E ok \in BOOLEAN : CoreReply("other", ok))
  /\ WF_vars(HealthDone("other"))

\* SpecConfig: one parseAndValidateServerConfig call of a starting process, in
\* each environment of EnvInputs.
NextConfig == \E env \in EnvInputs : CallParseAndValidateServerConfig(env)

SpecConfig == InitQuad /\ [][NextConfig]_vars

\* SpecPolicy: a CORSMiddleware constructed with or without fields of its own,
\* then updated through updateConfig and through the transport's
\* updateCORSConfig.
ConstructorInputs ==
  { restrictTo(full, keys) : full \in FullConfigInputs,
                             keys \in { {}, {"credentials", "maxAge"}, {"origins"} } }

InitPolicy ==
  /\ config = DefaultConfig
  /\ \E c \in ConstructorInputs :
        /\ policy = spread(getConfig(DEFAULT_CORS_CONFIG_origins, DefaultCORSFields), c).origins
        /\ corsConfig = fieldsOf(spread(getConfig(DEFAULT_CORS_CONFIG_origins, DefaultCORSFields), c))
  /\ nUpdates = 0
  /\ conn = [c \in Conns |-> IdleConn]
  /\ call = NoCall
  /\ bind = IdleBind
  /\ life = NewTransport
  /\ sup = NewServerState

NextPolicy ==
  \/ \E newConfig \in PartialConfigInputs : CallUpdateConfigFields(newConfig)
  \/ \E newOrigins \in OriginsArgumentInputs : CallUpdateCORSConfig(newOrigins)

SpecPolicy == InitPolicy /\ [][NextPolicy]_vars

\* SpecRace: one transport whose start() is called by two callers that do not
\* wait for each other, and whose stop() is called at any moment, on a host of
\* either kind.
InitRace ==
  /\ config = DefaultConfig
  /\ policy = constructorPolicy(DefaultConfig)
  /\ nUpdates = 0
  /\ conn = [c \in Conns |-> IdleConn]
  /\ call = NoCall
  /\ bind = IdleBind
  /\ life \in { [NewTransport EXCEPT !.v6only = v6only] : v6only \in BOOLEAN }
  /\ sup = NewServerState
  /\ corsConfig = DefaultCORSFields

NextRace ==
  \/ Start
  \/ OtherStart
  \/ StartSettled
  \/ OtherStartSettled
  \/ Stop
  \/ StopClosed

SpecRace == InitRace /\ [][NextRace]_vars

(***************************************************************************)
(* Properties.                                                             *)
(***************************************************************************)
\* The origin carries a non-empty Origin header value.
declaresOrigin(r) == r.hasOrigin /\ r.origin # <<>>

\* The endpoint a request addresses: the pathname of its parsed URL.
addresses(r, path) == URLParse(baseURL(r.host)).ok /\ pathname(r.url) = path

\* The wildcard semantics of a pattern, read off the pattern itself: "*" stands
\* for any run of characters, every other character for itself up to case, and
\* the whole origin must be consumed.
RECURSIVE wildcardMatch(_, _)
wildcardMatch(pattern, origin) ==
  IF pattern = <<>> THEN origin = <<>>
  ELSE IF Head(pattern) = "*"
  THEN \E k \in 0..Len(origin) :
          wildcardMatch(Tail(pattern), SubSeq(origin, k + 1, Len(origin)))
  ELSE /\ origin # <<>>
       /\ toLowerChar(Head(origin)) = toLowerChar(Head(pattern))
       /\ wildcardMatch(Tail(pattern), Tail(origin))

originMatches(origin, pattern) ==
  \/ origin = pattern
  \/ (\E i \in 1..Len(pattern) : pattern[i] = "*") /\ wildcardMatch(pattern, origin)

\* C1: a non-preflight request addressed to /mcp whose declared Origin fails
\* validation is answered 403 and is never parsed, dispatched or forwarded to
\* the external core.
C1_RejectedOriginNeverReachesMcp ==
  \A c \in Conns :
     LET r == conn[c]
     IN  (/\ r.st # "idle"
          /\ r.method # "OPTIONS"
          /\ addresses(r, U_mcp)
          /\ declaresOrigin(r)
          /\ ~r.allowed)
         => /\ r.st = "done"
            /\ r.status = 403
            /\ ~r.parsed
            /\ ~r.dispatched
            /\ r.forwarded = 0

\* C2: validateOrigin(o).allowed is true iff o is non-empty and matches at least
\* one pattern of the current policy, by exact equality or by the anchored,
\* case-insensitive wildcard semantics.
C2_AllowedIffSomePatternMatches ==
  call.op = "validateOrigin"
    => (call.allowed <=>
          /\ call.present
          /\ call.origin # <<>>
          /\ \E i \in 1..Len(call.origins) : originMatches(call.origin, call.origins[i]))

\* C2 witness: the second pattern of a two-pattern policy, a wildcard, allowed
\* an origin that differs from it in case, and the apex domain was refused.
C2_Witness ==
  /\ call.op = "validateOrigin"
  /\ call.origins = <<PAT_trusted, PAT_example_wild>>
  /\ call.origin = O_sub_caps
  /\ call.allowed
  /\ ~validateOrigin(call.origins, TRUE, O_apex).allowed

\* C3: with allowPrivateNetworkAccess and railwayInternalAccess both false, the
\* transport's policy as constructed allows only origins that match a configured
\* corsOrigins entry.
C3_RestrictedPolicyAllowsOnlyConfigured ==
  (~config.allowPrivateNetworkAccess /\ ~config.railwayInternalAccess /\ nUpdates = 0)
    => \A c \in Conns :
          (conn[c].st # "idle" /\ conn[c].allowed)
            => \E i \in 1..Len(config.corsOrigins) :
                  originMatches(conn[c].origin, config.corsOrigins[i])

\* The host of an origin is an RFC 1918 IPv4 address.
isRFC1918(hostname) ==
  LET labels == split(hostname, ".")
  IN  /\ Len(labels) = 4
      /\ \A i \in 1..4 : isDigits(labels[i]) /\ decimalValue(labels[i]) <= 255
      /\ LET a == decimalValue(labels[1])
             b == decimalValue(labels[2])
         IN  a = 10 \/ (a = 172 /\ b \in 16..31) \/ (a = 192 /\ b = 168)

\* What the documented default policy allows: private IPv4, localhost and
\* loopback hosts over http or https, subdomains of railway.app over https.
documentedDefaultAllows(origin) ==
  LET url == URLParse(origin)
      http  == <<"h","t","t","p">>
      https == <<"h","t","t","p","s">>
  IN  /\ url.ok
      /\ url.scheme \in {http, https}
      /\ \/ isRFC1918(url.hostname)
         \/ url.hostname \in { <<"l","o","c","a","l","h","o","s","t">>,
                               <<"1","2","7",".","0",".","0",".","1">>,
                               <<"[",":",":","1","]">> }
         \/ /\ url.scheme = https
            /\ endsWith(url.hostname, <<".","r","a","i","l","w","a","y",".","a","p","p">>)
            /\ Len(url.hostname) > 12

\* C4: under the default policy an http or https origin is allowed iff its host
\* is an RFC 1918 address, localhost, 127.0.0.1 or [::1], or (https) a subdomain
\* of railway.app; every public hostname is rejected.
C4_DefaultPolicyAllowsOnlyPrivateHosts ==
  (/\ call.op = "validateOrigin"
   /\ call.origins = DEFAULT_CORS_CONFIG_origins
   /\ call.present
   /\ URLParse(call.origin).ok
   /\ URLParse(call.origin).scheme \in {<<"h","t","t","p">>, <<"h","t","t","p","s">>})
    => (call.allowed <=> documentedDefaultAllows(call.origin))

\* C5: fail closed: for an origin string the URL parser rejects,
\* isPrivateNetworkOrigin is false and validateOrigin under the default policy
\* does not allow it.
C5_MalformedOriginFailsClosed ==
  /\ (call.op = "isPrivateNetworkOrigin" /\ ~URLParse(call.origin).ok) => ~call.isPrivate
  /\ (/\ call.op = "validateOrigin"
      /\ call.origins = DEFAULT_CORS_CONFIG_origins
      /\ ~URLParse(call.origin).ok) => ~call.allowed

\* C6: every OPTIONS request is answered at once by the access gate and never
\* routed: 200 with Access-Control-Allow-Origin equal to the origin when it is
\* allowed, else 403 with error, message, the rejected origin, isPrivateNetwork
\* of that origin and a sample of the allowed patterns.
C6_PreflightAnsweredByGate ==
  \A c \in Conns :
     LET r == conn[c]
     IN  (r.st # "idle" /\ r.method = "OPTIONS")
         => /\ r.st = "done"
            /\ ~r.routed /\ ~r.parsed /\ ~r.dispatched /\ r.forwarded = 0
            /\ IF declaresOrigin(r)
                  /\ \E i \in 1..Len(r.seen) : originMatches(r.origin, r.seen[i])
               THEN r.status = 200 /\ r.acao = r.origin
               ELSE /\ r.status = 403
                    /\ r.body.kind = "preflightRejected"
                    /\ r.body.error # "" /\ r.body.message # ""
                    /\ r.body.hasOrigin = r.hasOrigin /\ r.body.origin = r.origin
                    /\ r.body.isPrivateNetwork
                         = (declaresOrigin(r) /\ isPrivateNetworkOrigin(r.origin))
                    /\ Len(r.body.allowedPatterns) <= Len(r.seen)
                    /\ (r.seen # <<>> => r.body.allowedPatterns # <<>>)
                    /\ \A i \in 1..Len(r.body.allowedPatterns) :
                          r.body.allowedPatterns[i] = r.seen[i]

\* C6 witness: a preflight from a private-network origin the updated policy no
\* longer allows was answered 403, its body saying isPrivateNetwork.
C6_Witness ==
  \E c \in Conns :
     /\ conn[c].st = "done" /\ conn[c].method = "OPTIONS"
     /\ conn[c].origin = O_lan
     /\ conn[c].status = 403
     /\ conn[c].body.isPrivateNetwork
     /\ conn[c].body.allowedPatterns = <<PAT_trusted>>

\* The addresses of a sequence of candidates or attempts.
addressesOf(xs) == [i \in 1..Len(xs) |-> xs[i].address]

DualStackOrder == << "::", "0.0.0.0", "127.0.0.1" >>

\* C7: with dual-stack requested and IPv6 available the candidates are attempted
\* in the order ::, 0.0.0.0, 127.0.0.1, each only after every earlier one
\* failed, and the first success is returned with no further attempt.
C7_DualStackCascadeInOrder ==
  (bind.pc \in {"attempt", "returned"} /\ bind.cfg.dualStack /\ bind.stack.ipv6Available)
    => /\ Len(bind.attempts) <= 3
       /\ addressesOf(bind.attempts) = SubSeq(DualStackOrder, 1, Len(bind.attempts))
       /\ \A i \in 1..(Len(bind.attempts) - 1) : ~bind.attempts[i].success
       /\ bind.pc = "attempt"
            => /\ Len(bind.attempts) < 3
               /\ \A i \in 1..Len(bind.attempts) : ~bind.attempts[i].success
       /\ bind.pc = "returned"
            => /\ bind.attempts # <<>>
               /\ bind.result = bind.attempts[Len(bind.attempts)]
               /\ (~bind.result.success => Len(bind.attempts) = 3)
               /\ (bind.result.success /\ bind.result.address # "::"
                     => bind.result.family = "IPv4")

\* C7 witness: :: failed, 0.0.0.0 succeeded and was returned with family IPv4.
C7_Witness ==
  /\ bind.pc = "returned"
  /\ bind.cfg.dualStack /\ bind.stack.ipv6Available
  /\ Len(bind.attempts) = 2
  /\ ~bind.attempts[1].success
  /\ bind.result.success /\ bind.result.address = "0.0.0.0" /\ bind.result.family = "IPv4"

\* The decision table of the bind plan.
decisionTable(dualStack, preferIPv6, ipv4Available, ipv6Available) ==
  IF dualStack /\ ipv6Available THEN << "::", "0.0.0.0", "127.0.0.1" >>
  ELSE IF preferIPv6 /\ ipv6Available THEN << "::" >>
  ELSE IF ipv6Available /\ ~ipv4Available THEN << "::" >>
  ELSE IF ipv4Available THEN << "0.0.0.0" >>
  ELSE << "::" >>

\* C8: for every combination of dualStack, preferIPv6 and the two probe results
\* the bind plan is the one the decision table gives.
C8_PlanFollowsDecisionTable ==
  bind.pc \in {"attempt", "returned", "threw"}
    => /\ bind.pc # "threw"
       /\ addressesOf(bind.plan)
            = decisionTable(bind.cfg.dualStack, bind.cfg.preferIPv6,
                            bind.stack.ipv4Available, bind.stack.ipv6Available)

\* C8 witness: IPv6 preferred over an available IPv4 (rule 2), attempted.
C8_Witness ==
  /\ bind.pc = "returned"
  /\ ~bind.cfg.dualStack /\ bind.cfg.preferIPv6
  /\ bind.stack.ipv4Available /\ bind.stack.ipv6Available
  /\ addressesOf(bind.attempts) = << "::" >>

\* C9: when every candidate attempt failed, bind returns (it does not throw)
\* success=false with a non-null error, the error of the last candidate.
C9_AllFailedReturnsLastError ==
  /\ bind.pc # "threw"
  /\ (bind.pc = "returned" /\ \A i \in 1..Len(bind.attempts) : ~bind.attempts[i].success)
       => /\ ~bind.result.success
          /\ bind.result.error # "none"
          /\ bind.result.error = bind.attempts[Len(bind.attempts)].error
          /\ Len(bind.attempts) = Len(bind.plan)

\* C9 witness: three candidates failed with different errors; the last is returned.
C9_Witness ==
  /\ bind.pc = "returned"
  /\ Len(bind.attempts) = 3
  /\ bind.attempts[1].error = "EADDRINUSE"
  /\ bind.attempts[3].error = "EACCES"
  /\ ~bind.result.success /\ bind.result.error = "EACCES"

\* C10: every bind call eventually returns a BindOutcome: an attempt the
\* operating system reports nothing about is abandoned by a timeout, so a call
\* that has not returned can always take a further step.
C10_EveryBindCallReturns ==
  bind.pc \in {"idle", "returned"} \/ ENABLED NextBind

\* A start() or stop() call that has settled or was never made.
Settled == {"idle", "resolved", "rejected"}

\* C11: when the bind cascade of a start() failed, the call has rejected with
\* the cascade's error, the transport is not running and owns no listening
\* socket, and the call made exactly one bindToOptimalNetwork call.
C11_FailedStartLeavesStopped ==
  (life.start \in Settled /\ bind.pc = "returned" /\ ~bind.result.success)
    => /\ life.start = "rejected"
       /\ life.error # "none"
       /\ life.error = bind.result.error
       /\ ~life.isRunning
       /\ life.httpServer \in {"null", "closed"}
       /\ \A i \in 1..Len(bind.attempts) : ~bind.attempts[i].server
       /\ life.binds = 1

\* C11 witness: a transport that ran and was stopped is started again, its
\* three candidates fail, and the start() call rejects with the last error.
C11_Witness ==
  /\ life.start = "rejected"
  /\ life.error = "EACCES"
  /\ life.httpServer = "closed"
  /\ ~life.isRunning
  /\ bind.pc = "returned"
  /\ Len(bind.attempts) = 3

\* C12: a start() call on a running transport rejects with 'HTTP transport is
\* already running' and changes nothing else: not the listener, not the
\* BindOutcome, not the running flag, no bind call, no request in flight.
C12_StartWhileRunningChangesNothing ==
  [][ (life.isRunning /\ life.start \in Settled /\ life'.start # life.start)
        => /\ life' = [life EXCEPT !.start = "rejected",
                                   !.error = "HTTP transport is already running"]
           /\ bind' = bind
           /\ conn' = conn ]_vars

\* C12 witness: a start() call was rejected while the listener was serving a
\* request.
C12_Witness ==
  /\ life.start = "rejected"
  /\ life.error = "HTTP transport is already running"
  /\ life.isRunning
  /\ life.httpServer = "listening"
  /\ life.bindResult.success
  /\ \E c \in Conns : conn[c].st = "core"

passedGate(r) ==
  /\ r.st \notin {"idle", "threw"}
  /\ r.method # "OPTIONS"
  /\ ~(r.st = "done" /\ r.status = 403 /\ r.body.kind = "corsRejected")

\* The request is being served, or was served, by the handler of /health.
servedByHealth(r) ==
  \/ r.st = "health"
  \/ r.st = "done" /\ r.body.kind = "health" /\ r.status \in {200, 503}

\* The request is being served, or was served, by the handler of /mcp.
servedByMcp(r) ==
  \/ r.st \in {"body", "core"}
  \/ r.st = "done" /\ r.status \in {200, 400, 500}

\* The request was answered with status and nothing of it was read or served.
refusedWith(r, status) ==
  r.st = "done" /\ r.status = status /\ r.body.kind = "error" /\ ~r.parsed

\* C14: a non-preflight request that passed the access gate is routed by path
\* and then by method: /health serves GET and POST and answers 405 otherwise,
\* /mcp serves POST and answers 405 otherwise, every other path is answered 404.
C14_RoutingByPathThenMethod ==
  \A c \in Conns :
     passedGate(conn[c]) =>
        IF addresses(conn[c], U_health)
        THEN IF conn[c].method \in {"GET", "POST"}
             THEN servedByHealth(conn[c])
             ELSE refusedWith(conn[c], 405)
        ELSE IF addresses(conn[c], U_mcp)
        THEN IF conn[c].method = "POST"
             THEN servedByMcp(conn[c])
             ELSE refusedWith(conn[c], 405)
        ELSE refusedWith(conn[c], 404)

\* C14 witness: a POST to /health was answered with the health report.
C14_Witness ==
  \E c \in Conns :
     /\ conn[c].st = "done"
     /\ conn[c].method = "POST"
     /\ conn[c].url = U_health
     /\ conn[c].body.kind = "health"

\* The body texts that are not a request envelope: not JSON, or JSON without a
\* method field (an object without method, or a value that is not an object).
NotAnEnvelope == {"invalidJson", "noMethod", "null"}

\* C15: a POST /mcp body that is not JSON, or is JSON without a method field
\* (null included), is answered 400 and nothing is dispatched; an envelope
\* without id is dispatched with id null.
C15_BadBodyAnswered400 ==
  \A c \in Conns :
     /\ conn[c].text \in NotAnEnvelope
          => /\ conn[c].st = "done"
             /\ conn[c].status = 400
             /\ ~conn[c].dispatched
             /\ conn[c].forwarded = 0
     /\ (conn[c].dispatched /\ conn[c].sentId = "undefined") => conn[c].reqId = "null"

\* C16: the external core is called only for tools/list and tools/call, once
\* per such request and with the request's method and params; initialize is
\* answered locally and any other method with error -32601, without a call.
C16_CoreCalledOnlyForToolMethods ==
  \A c \in Conns :
     /\ conn[c].forwarded =
          (IF conn[c].dispatched /\ conn[c].text \in {"tools/list", "tools/call"}
           THEN 1 ELSE 0)
     /\ conn[c].forwarded = 1
          => /\ conn[c].core.method = conn[c].text
             /\ conn[c].core.params = conn[c].params
     /\ conn[c].forwarded = 0 => conn[c].core = NoCoreCall
     /\ (conn[c].dispatched /\ conn[c].text = "initialize")
          => /\ conn[c].st = "done"
             /\ conn[c].status = 200
             /\ conn[c].body.kind = "rpcResult"
     /\ (conn[c].dispatched /\ conn[c].text = "bogus")
          => /\ conn[c].st = "done"
             /\ conn[c].status = 200
             /\ conn[c].body.kind = "rpcError"
             /\ conn[c].body.code = -32601

\* C16 witness: a tools/call request with params is at the core, called once
\* with that method and those params.
C16_Witness ==
  \E c \in Conns :
     /\ conn[c].st = "core"
     /\ conn[c].text = "tools/call"
     /\ conn[c].params = "p1"
     /\ conn[c].forwarded = 1
     /\ conn[c].core = [method |-> "tools/call", params |-> "p1", outcome |-> "pending"]

\* C17: every 200 response of POST /mcp is a JSON-RPC envelope whose id is the
\* request's id, null when the request had none, on every branch.
C17_EveryRpcResponseIsEnvelope ==
  \A c \in Conns :
     (conn[c].st = "done" /\ conn[c].dispatched /\ conn[c].status = 200)
       => /\ conn[c].body.jsonrpc
          /\ conn[c].body.id = (IF conn[c].sentId = "undefined" THEN "null"
                                ELSE conn[c].sentId)
          /\ conn[c].body.kind \in {"rpcResult", "rpcError"}

\* C18: when the core throws or rejects, the request is answered 200 with
\* error -32603, 'Internal error' and the error's message as data; the failure
\* does not escape the handler and the step leaves the transport as it was.
C18_CoreFailureAnsweredInternalError ==
  /\ [](\A c \in Conns :
          conn[c].core.outcome = "rejected"
            => /\ conn[c].st = "done"
               /\ conn[c].status = 200
               /\ conn[c].body.kind = "rpcError"
               /\ conn[c].body.code = -32603
               /\ conn[c].body.message = "Internal error"
               /\ conn[c].body.data \in CoreErrorInputs)
  /\ [][ \A c \in Conns :
           (conn[c].st = "core" /\ conn'[c].st # "core")
             => /\ conn'[c].st = "done"
                /\ life' = life
                /\ bind' = bind ]_vars

\* C18 witness: the core failed, the request was answered and the listener is
\* still accepting requests.
C18_Witness ==
  /\ life.isRunning
  /\ life.httpServer = "listening"
  /\ \E c \in Conns :
        /\ conn[c].st = "done"
        /\ conn[c].core.outcome = "rejected"
        /\ conn[c].body.code = -32603

\* C19: every request is answered and no exception escapes the request
\* handler, whatever its URL, Host header, body or origin.
C19_NoExceptionEscapesHandler ==
  \A c \in Conns :
     /\ conn[c].st # "threw"
     /\ conn[c].st = "done" => conn[c].status \in {200, 400, 403, 404, 405, 500, 503}

\* C20: a /health response has status 200 when the aggregate is healthy or
\* degraded and 503 only when it is unhealthy.
C20_HealthStatusCode ==
  \A c \in Conns :
     (conn[c].st = "done" /\ conn[c].body.kind = "health")
       => conn[c].status = (IF conn[c].body.health = "unhealthy" THEN 503 ELSE 200)

\* The names of the six checks of the health report.
CheckNames == {"server", "mcp", "gmail", "credentials", "network", "cors"}

\* A /health request was answered with the health report.
healthAnswered(r) == r.st = "done" /\ r.body.kind = "health"

\* C21: the aggregate status of a health report is unhealthy if one of its six
\* checks is unhealthy, otherwise degraded if one is degraded, otherwise
\* healthy.
C21_AggregateHealthStatus ==
  \A c \in Conns :
     healthAnswered(conn[c]) =>
        /\ DOMAIN conn[c].body.checks = CheckNames
        /\ (conn[c].body.health = "unhealthy") <=>
              (\E k \in CheckNames : conn[c].body.checks[k] = "unhealthy")
        /\ (conn[c].body.health = "degraded") <=>
              /\ \A k \in CheckNames : conn[c].body.checks[k] # "unhealthy"
              /\ \E k \in CheckNames : conn[c].body.checks[k] = "degraded"
        /\ (conn[c].body.health = "healthy") <=>
              (\A k \in CheckNames : conn[c].body.checks[k] = "healthy")

\* C21 witness: a report with an unhealthy check beside a degraded one was
\* answered as unhealthy.
C21_Witness ==
  \E c \in Conns :
     /\ healthAnswered(conn[c])
     /\ conn[c].body.checks.credentials = "unhealthy"
     /\ conn[c].body.checks.gmail = "degraded"
     /\ conn[c].body.health = "unhealthy"

\* C22: a health report made without a bind outcome is unhealthy, and one
\* made with a bind outcome where the credentials file or the OAuth keys file
\* is missing, every other check being fine, is degraded.
C22_CredentialsDegradeBindAbsenceFails ==
  \A c \in Conns :
     healthAnswered(conn[c]) =>
        /\ ~conn[c].bound => conn[c].body.health = "unhealthy"
        /\ ( /\ conn[c].bound
             /\ ~(conn[c].hasCredentials /\ conn[c].hasOAuthKeys)
             /\ \A k \in CheckNames \ {"gmail", "credentials"} :
                   conn[c].body.checks[k] = "healthy" )
           => conn[c].body.health = "degraded"

\* C27: a request observes one policy from its access decision to its
\* response body: the policy the health report's cors check read is the
\* policy that decided the request's CORS headers.
C27_RequestObservesOnePolicy ==
  \A c \in Conns :
     healthAnswered(conn[c]) => conn[c].policyRead = conn[c].seen

\* C30: a GET or POST to /health whose Origin fails validation is served with
\* the health report, never refused with 403, and the failed validation is
\* logged.
C30_HealthServedAndRefusalLogged ==
  \A c \in Conns :
     ( /\ conn[c].st \notin {"idle", "threw"}
       /\ conn[c].method \in {"GET", "POST"}
       /\ addresses(conn[c], U_health)
       /\ truthyOrigin(conn[c])
       /\ ~conn[c].allowed )
     => /\ servedByHealth(conn[c])
        /\ conn[c].logged

\* The transports the mode requires.
requiresStdio(mode) == mode \in {"stdio", "dual"}
requiresHttp(mode) == mode \in {"http", "dual"}

\* C23: in dual mode an initialize() that failed leaves no transport active
\* and healthy false.
C23_FailedInitializeLeavesNothingActive ==
  (sup.mode = "dual" /\ sup.init = "rejected") =>
     /\ ~getStatus(sup, life).healthy
     /\ ~getStatus(sup, life).stdio
     /\ ~getStatus(sup, life).http

\* C24: between calls, healthy is true exactly when the most recent
\* initialize() succeeded for the mode's transports and no shutdown()
\* completed since.
C24_HealthyIffInitializedAndNotShutDown ==
  (sup.init \in {"idle", "resolved", "rejected"} /\ sup.shut \in {"idle", "resolved"}) =>
     (getStatus(sup, life).healthy <=>
        /\ sup.init = "resolved"
        /\ ~sup.shutSince
        /\ requiresStdio(sup.mode) => sup.stdio
        /\ requiresHttp(sup.mode) => sup.http /\ life.isRunning)

\* C25: once shutdown() completed, and until the next initialize(), healthy is
\* false, no transport is reported active and no listener the supervisor
\* started is listening.
C25_ShutdownStopsEveryTransport ==
  (sup.shut = "resolved" /\ sup.shutSince) =>
     /\ ~getStatus(sup, life).healthy
     /\ ~getStatus(sup, life).stdio
     /\ ~getStatus(sup, life).http
     /\ sup.orphans = 0
     /\ sup.http => life.httpServer # "listening"

\* C26: however many times the handlers were installed, the process exits
\* after one signal with shutdown() invoked exactly once.
C26_OneSignalOneShutdown ==
  sup.exited => sup.shutdownCalls = 1

\* C29: for an origin whose host is the dotted quad a.b.c.d,
\* isPrivateNetworkOrigin is true exactly when a = 10, or a = 172 and
\* 16 <= b <= 31, or a = 192 and b = 168, or the host is 127.0.0.1.
C29_PrivateRangesOfDottedQuads ==
  \A a \in FirstOctetInputs, b \in SecondOctetInputs, c \in ThirdOctetInputs,
     d \in FourthOctetInputs, suffix \in PortSuffixInputs :
     (call.op = "isPrivateNetworkOrigin" /\ call.origin = quadOrigin(a, b, c, d, suffix)) =>
        (call.isPrivate <=>
           \/ a = 10
           \/ a = 172 /\ 16 <= b /\ b <= 31
           \/ a = 192 /\ b = 168
           \/ <<a, b, c, d>> = <<127, 0, 0, 1>>)

\* C29 witness: 172.31.255.255 was found private, after a call on a quad.
C29_Witness ==
  /\ call.op = "isPrivateNetworkOrigin"
  /\ call.origin = quadOrigin(172, 31, 255, 255, <<>>)
  /\ call.isPrivate

\* The request of connection c is in flight: accepted and not yet answered.
inFlight(c) == conn[c].st \in {"body", "core", "health"}

\* C28: whatever the other connection's request is waiting for, and however
\* long, a request in flight is answered, and a step of one request changes
\* nothing of the other.
C28_RequestsHandledIndependently ==
  /\ inFlight("other") ~> conn["other"].st = "done"
  /\ [][\A c \in ConcurrentConns :
          conn'[c] # conn[c] => \A d \in ConcurrentConns \ {c} : conn'[d] = conn[d]]_vars

\* C28 witness: a health check was answered while the other connection's
\* request was still waiting for its body.
C28_Witness ==
  /\ conn["stalled"].st = "body"
  /\ conn["other"].st = "done"
  /\ conn["other"].body.kind = "health"

\* detectNetworkStack has returned.
stackKnown == Len(bind.probes) = 2

\* C31: a family is reported available exactly when its probe reached
\* 'listening'; preferredStack is dual with both families, the single family
\* with one, ipv4 with none; a probe that fails or times out raises nothing.
C31_ProbesDecideAvailability ==
  /\ Len(bind.probes) >= 1 => (bind.stack.ipv4Available <=> bind.probes[1] = "listening")
  /\ stackKnown =>
        /\ bind.stack.ipv6Available <=> bind.probes[2] = "listening"
        /\ bind.stack.preferredStack =
              IF bind.probes = <<"listening", "listening">> THEN "dual"
              ELSE IF bind.probes[2] = "listening" THEN "ipv6"
              ELSE "ipv4"
        /\ bind.pc \in {"attempt", "returned"}

\* C31 witness: one probe failed and the other timed out; ipv4 is preferred
\* and the binder went on to its first attempt.
C31_Witness ==
  /\ bind.probes = <<"error", "silent">>
  /\ bind.stack.preferredStack = "ipv4"
  /\ ~bind.stack.ipv4Available
  /\ bind.pc = "attempt"

\* C37: a listener on the IPv6 wildcard whose IPv6-only option could not be
\* cleared is still a successful bind, and dual-stack is reported only when
\* the option was cleared.
C37_DualStackReportedOnlyWhenRelaxed ==
  (bind.pc = "returned" /\ bind.relaxed \in {"threw", "unsupported"}) =>
     /\ bind.result.success
     /\ ~dualStackEnabled(bind.result)
     /\ ~serverDualStack(bind.result)

\* C38: a probe's socket is closed before the next step, a failed candidate's
\* socket is closed before the next candidate, and a returned cascade leaves
\* open the successful candidate's socket and no other.
C38_NoSocketLeftBehind ==
  /\ bind.pc = "probe4" => bind.open = {Socket("probe", "0.0.0.0")}
  /\ bind.pc = "probe6" => bind.open = {Socket("probe", "::")}
  /\ stackKnown => \A s \in bind.open : s.kind # "probe"
  /\ bind.pc = "attempt" =>
        bind.open = {Socket("bind", bind.plan[Len(bind.attempts) + 1].address)}
  /\ bind.pc = "returned" =>
        bind.open = IF bind.result.success THEN {Socket("bind", bind.result.address)}
                    ELSE {}

\* C38 witness: a probe timed out, two candidates failed and the third
\* listens.
C38_Witness ==
  /\ bind.pc = "returned"
  /\ bind.result.success
  /\ Len(bind.attempts) = 3
  /\ bind.probes[1] = "silent"

\* C39: the bound address is the wildcard or loopback address of the
\* strategy's candidate that listened, whatever bindAddress was configured.
C39_BoundAddressFromStrategyAlone ==
  (bind.pc = "returned" /\ bind.result.success) =>
     /\ bind.result.address \in {"::", "0.0.0.0", "127.0.0.1"}
     /\ bind.result.address =
          IF bind.strategy = "ipv4-only" THEN "0.0.0.0"
          ELSE IF bind.strategy = "ipv6-only" \/ Len(bind.attempts) = 1 THEN "::"
          ELSE IF Len(bind.attempts) = 2 THEN "0.0.0.0"
          ELSE "127.0.0.1"
     /\ Len(bind.attempts) = 1 => bind.result.address \in {"::", "0.0.0.0"}

\* C39 witness: the configured address was the loopback address and the
\* listener is bound to the IPv4 wildcard.
C39_Witness ==
  /\ bind.pc = "returned"
  /\ bind.result.success
  /\ bind.cfg.bindAddress = "127.0.0.1"
  /\ bind.result.address = "0.0.0.0"

\* C32: after start() no operation runs the stack probe again: no request is
\* answered with a stack detected while it was served.
C32_StackProbedAtStartupOnly ==
  \A c \in Conns : conn[c].stack = NoStack

\* C36: a POST /mcp request reaches the external core only without an Origin
\* (no header, or an empty one) or with an Origin the policy in force at its
\* arrival allows.
C36_CoreReachedOnlyWithAllowedOrigin ==
  \A c \in Conns :
     conn[c].core.method # "none" =>
        \/ ~truthyOrigin(conn[c])
        \/ validateOrigin(conn[c].seen, conn[c].hasOrigin, conn[c].origin).allowed

\* The configuration the environment asks for, in the claim's terms: the mode
\* requested, and whether the environment names a port at all.
requestedMode(env) == parseServerConfig(env).mode
portMissing(env) == ~truthyEnv(env.PORT)
invalidConfiguration(env) ==
  \/ requestedMode(env) \notin ValidModes
  \/ /\ requestedMode(env) \in { <<"h","t","t","p">>, <<"d","u","a","l">> }
     /\ \/ portMissing(env)
        \/ parseInt(env.PORT.value).nan
        \/ portOutOfRange(parseInt(env.PORT.value))

\* C33: an invalid configuration is a fatal startup failure: with a mode outside
\* {stdio, http, dual}, or a network mode whose port is missing or outside
\* 1..65535, parseAndValidateServerConfig throws, so that nothing is started.
C33_InvalidConfigurationIsFatal ==
  (call.op = "parseAndValidateServerConfig" /\ invalidConfiguration(call.env))
     => call.outcome.threw

\* Origins a policy is asked about after an update.
ProbedOrigins == RequestOriginInputs \cup { O_localhost, O_ten }

matchesSome(origin, patterns) ==
  \E i \in 1..Len(patterns) : matchesOriginPattern(origin, patterns[i])

arrayArgument(a) == a.truthy /\ a.isArray

\* C34: updateConfig replaces exactly the fields supplied and leaves every other
\* field as it was; updateCORSConfig with an array makes the array the whole
\* origin list, so that an origin is allowed iff it matches the array, and
\* leaves methods, allowed headers, credentials and max-age alone; with anything
\* but an array it changes nothing.
C34_UpdateReplacesSuppliedFieldsOnly ==
  /\ call.op = "updateConfig" =>
       \A k \in CORSFieldNames \cup {"origins"} :
          getConfig(policy, corsConfig)[k] =
             IF k \in DOMAIN call.newConfig THEN call.newConfig[k] ELSE call.before[k]
  /\ (call.op = "updateCORSConfig" /\ arrayArgument(call.newOrigins)) =>
       /\ policy = call.newOrigins.value
       /\ corsConfig = fieldsOf(call.before)
       /\ \A o \in ProbedOrigins :
            validateOrigin(policy, TRUE, o).allowed
               <=> (o # <<>> /\ matchesSome(o, call.newOrigins.value))
  /\ (call.op = "updateCORSConfig" /\ ~arrayArgument(call.newOrigins)) =>
       getConfig(policy, corsConfig) = call.before

\* An updateCORSConfig call with an array, on a middleware whose other fields
\* are not the defaults, after which an origin the previous list allowed is
\* refused.
C34_Witness ==
  /\ call.op = "updateCORSConfig"
  /\ arrayArgument(call.newOrigins)
  /\ corsConfig # DefaultCORSFields
  /\ validateOrigin(call.before.origins, TRUE, O_localhost).allowed
  /\ ~validateOrigin(policy, TRUE, O_localhost).allowed

\* C35: for any interleaving of start() and stop() calls on one transport, a
\* start() made while an earlier one is still in progress included, the
\* transport has at most one listening socket, and a socket it has listening is
\* the one its bindResult records.
C35_OneListenerAndItIsRecorded ==
  /\ Cardinality(life.listeners) <= 1
  /\ \A address \in life.listeners :
        life.bindResult.success /\ life.bindResult.address = address
=============================================================================
